---- MODULE Spec2Model ----
(***************************************************************************)
(* Booking lifecycle of the garage marketplace backend: the Booking,      *)
(* Garage, Service and User collections and the request handlers of the   *)
(* booking and user controllers that read and write them.                 *)
(*                                                                         *)
(* Every handler runs inside one MongoDB transaction (session), so a      *)
(* handler is one atomic action of Spec.  SpecConc splits createBooking   *)
(* into the point where its transaction takes its snapshot and the point  *)
(* where it writes and commits, to interleave two requests.               *)
(***************************************************************************)
EXTENDS Integers, Sequences, FiniteSets, TLC

\* ---------------------------------------------------------------- bounds
\* Number of Booking documents ever inserted.
MaxBookings == 2

\* Number of Review documents ever inserted.
MaxReviews == 2

\* ------------------------------------------------------------- universe
Admins == {"admin"}
CarOwners == {"c1", "c2"}
GarageOwners == {"o1", "o2"}
Users == Admins \cup CarOwners \cup GarageOwners

\* userSchema.role
Role(u) ==
  IF u \in Admins THEN "admin"
  ELSE IF u \in CarOwners THEN "car_owner" ELSE "garage_owner"

Garages == {"g1", "g2"}
Services == {"s1", "s2"}

\* The users the admin's user-management requests are aimed at.
ManagedUsers == {"c1"}

\* The two clients whose createBooking requests are interleaved in SpecConc.
Clients == {"k1", "k2"}

\* A request field that was not sent.
Missing == "missing"

\* bookingSchema.status enum
Statuses ==
  {"pending", "approved", "in_progress", "completed", "cancelled", "rejected"}

\* Values a caller may send as req.body.status: the enum, a string outside it,
\* and nothing.
RequestedStatuses == Statuses \cup {"archived", Missing}

\* Values a caller may send as req.body.reason.
Reasons == {Missing, "customer asked"}

\* Paths of bookingSchema: a save or an update writes these and no others.
BookingSchemaPaths ==
  {"carOwner", "garage", "service", "slot", "status", "isDeleted"}

VARIABLES
  users,      \* User collection:    id -> [isDeleted, canCreateGarage,
              \*                           garageCreationPayments (its length)]
  garages,    \* Garage collection:  id -> [stored, owner, status, isActive,
              \*                           isDeleted, businessHours, stats]
  services,   \* Service collection: id -> [garage, isDeleted, isAvailable]
  bookings,   \* Booking collection: sequence, a booking's id is its index
  created,    \* history: garage -> number of createBooking requests answered 201
  last,       \* the request handled last and the response it got
  txn,        \* SpecConc: client -> its createBooking request in flight
  payments,   \* Payment collection: transactionId -> payment, or NoPayment
  reviews     \* Review collection:  sequence of [carOwner, garage, booking,
              \*                                 isDeleted, response]

vars == <<users, garages, services, bookings, created, last, txn, payments,
          reviews>>

\* ------------------------------------------------------------ responses
Response(op, code, msg) == [op |-> op, code |-> code, msg |-> msg]

NoResponse == Response("none", 0, <<>>)

IdleTxn == [pc |-> "idle"]

\* The transaction references (tx_ref) of the payments that get stored.
PaymentIds == {"t1", "t2"}

\* No Payment document has this transactionId.
NoPayment == [stored |-> FALSE]

\* ------------------------------------------------------- business hours
\* Dates are day numbers, day 1 a Monday; times of day are the minutes of a
\* zero-padded "HH:MM" string, which compare as the strings do.
Weekdays ==
  <<"monday", "tuesday", "wednesday", "thursday", "friday", "saturday", "sunday">>

\* new Date(date).toLocaleString('en-us', {weekday: 'long'}).toLowerCase()
DayOfWeek(d) == Weekdays[((d - 1) % 7) + 1]

\* garageSchema.businessHours of a garage open 08:00-17:00: daySchema() for
\* Monday to Saturday and daySchema(true), closed, for Sunday.
DefaultBusinessHours ==
  [w \in {Weekdays[i] : i \in 1..7} |->
     [open |-> 480, close |-> 1020, closed |-> (w = "sunday")]]

\* As GaragePreSave, for a schema without the hook.
GaragePreSaveNone(doc) == doc

\* garageSchema.pre('save'), line 221: every garage.save() and Garage.create()
\* sets isActive from status.
GaragePreSave(doc) == [doc EXCEPT !.isActive = (doc.status = "active")]

\* ----------------------------------------------------------------- Init
Init ==
  /\ users = [u \in Users |->
                [isDeleted |-> FALSE, canCreateGarage |-> FALSE,
                 garageCreationPayments |-> 0]]
  /\ garages =
       [g \in Garages |->
          [stored |-> TRUE,
           owner |-> IF g = "g1" THEN "o1" ELSE "o2",
           status |-> "active",
           isActive |-> TRUE,
           isDeleted |-> FALSE,
           businessHours |-> DefaultBusinessHours,
           stats |-> [totalBookings |-> 0, completedBookings |-> 0]]]
  /\ services =
       [s \in Services |->
          [stored |-> TRUE,
           name |-> IF s = "s1" THEN "Oil" ELSE "Wash",
           garage |-> IF s = "s1" THEN "g1" ELSE "g2",
           isDeleted |-> FALSE,
           isAvailable |-> TRUE,
           duration |-> 60]]
  /\ bookings = <<>>
  /\ created = [g \in Garages |-> 0]
  /\ last = NoResponse
  /\ txn = [k \in Clients |-> IdleTxn]
  /\ payments = [t \in PaymentIds |-> NoPayment]
  /\ reviews = <<>>

\* ------------------------------------------------- documents and schema
\* As NewBooking, for a handler that inserts the booking as already approved.
NewBookingApproved(u, g, sv, sl) ==
  [carOwner |-> u, garage |-> g, service |-> sv, slot |-> sl,
   status |-> "approved", isDeleted |-> FALSE, statusHistory |-> <<>>]

\* The document Booking.create inserts: the fields createBooking passes; nothing
\* is stored under statusHistory, which is no path of bookingSchema.
NewBooking(u, g, sv, sl) ==
  [carOwner |-> u, garage |-> g, service |-> sv, slot |-> sl,
   status |-> "pending", isDeleted |-> FALSE, statusHistory |-> <<>>]

\* doc.save(): the stored document takes the schema paths of the in-memory
\* document; a property set on the in-memory document that is no schema path
\* (statusHistory, deletedAt, deletedBy) is not written.
SaveBooking(stored, doc) ==
  [f \in DOMAIN stored |->
     IF f \in BookingSchemaPaths THEN doc[f] ELSE stored[f]]

\* Model.updateMany / findByIdAndUpdate: the update is cast to the schema, so
\* only its schema paths are set on the stored document.
UpdateBooking(stored, update) ==
  [f \in DOMAIN stored |->
     IF f \in BookingSchemaPaths /\ f \in DOMAIN update
       THEN update[f] ELSE stored[f]]

\* booking.statusHistory.push({status, changedBy, reason, changedAt})
HistoryEntry(s, u, reason, default) ==
  [status |-> s, changedBy |-> u,
   reason |-> IF reason = Missing THEN default ELSE reason]

\* As validTransitions, with pending bookings allowed to complete directly.
validTransitionsLoose ==
  [s \in Statuses |->
     CASE s = "pending" -> {"approved", "rejected", "cancelled", "completed"}
       [] s = "approved" -> {"in_progress", "cancelled"}
       [] s = "in_progress" -> {"completed", "cancelled"}
       [] OTHER -> {}]

\* The status transition table of updateBookingStatus.
validTransitions ==
  [s \in Statuses |->
     CASE s = "pending" -> {"approved", "rejected", "cancelled"}
       [] s = "approved" -> {"in_progress", "cancelled"}
       [] s = "in_progress" -> {"completed", "cancelled"}
       [] OTHER -> {}]

\* As cancellableStatuses, with bookings in progress cancellable too.
cancellableStatusesLoose == {"pending", "approved", "in_progress"}

\* cancellableStatuses of cancelBooking
cancellableStatuses == {"pending", "approved"}

\* Math.max(0, n)
Max0(n) == IF n < 0 THEN 0 ELSE n

BookingIds == 1..MaxBookings

\* -------------------------------------------------------- createBooking
\* The conflict query of createBooking: a booking that is not soft-deleted, not
\* cancelled and not rejected with the same garage, date, start and end.
ExistingBooking(bks, g, sl) ==
  \E i \in 1..Len(bks) :
    /\ bks[i].garage = g
    /\ bks[i].slot = sl
    /\ bks[i].status \notin {"cancelled", "rejected"}
    /\ ~bks[i].isDeleted

\* The response createBooking gives before it writes, or a 0 code when every
\* check passed, on the data its transaction reads.
CreateBookingCheck(u, g, sv, sl, gs, svs, bks) ==
  IF Role(u) # "car_owner"
    THEN Response("createBooking", 403, <<"Role not authorized">>)
  ELSE IF g = Missing
    THEN Response("createBooking", 400, <<"Missing required fields">>)
  ELSE IF gs[g].isDeleted \/ gs[g].status # "active"
    THEN Response("createBooking", 404, <<"Garage not found or not active">>)
  ELSE IF svs[sv].garage # g \/ svs[sv].isDeleted \/ ~svs[sv].isAvailable
    THEN Response("createBooking", 404, <<"Service not found or not available">>)
  ELSE IF ExistingBooking(bks, g, sl)
    THEN Response("createBooking", 400, <<"Time slot already booked">>)
  ELSE Response("createBooking", 0, <<>>)

\* As BumpTotal, for a handler that assigns 1 where line 169 adds 1.
BumpTotalAssign(gs, g, total) ==
  [gs EXCEPT ![g].stats.totalBookings = 1]

\* garage.stats.totalBookings += 1 on the garage document the handler read
\* (total is the value it read), then garage.save.
BumpTotal(gs, g, total) ==
  [gs EXCEPT ![g].stats.totalBookings = total + 1]

\* POST /api/bookings
CreateBooking(u, g, sv, sl) ==
  LET r == CreateBookingCheck(u, g, sv, sl, garages, services, bookings) IN
  /\ r.code = 0 => Len(bookings) < MaxBookings
  /\ IF r.code # 0
       THEN /\ last' = r
            /\ UNCHANGED <<bookings, garages, created>>
       ELSE /\ bookings' = Append(bookings, NewBooking(u, g, sv, sl))
            /\ garages' = BumpTotal(garages, g, garages[g].stats.totalBookings)
            /\ created' = [created EXCEPT ![g] = @ + 1]
            /\ last' = Response("createBooking", 201,
                                <<"Booking created successfully">>)
  /\ UNCHANGED <<users, services, txn, payments, reviews>>

\* -------------------------------------------------- updateBookingStatus
\* As SameStatus, for a handler without the early return of line 475.
SameStatusSkipped(stored, s) == FALSE

\* Line 475: the booking already has the requested status.
SameStatus(stored, s) == stored.status = s

\* As isGarageOwner, for a handler that accepts every garage owner.
isGarageOwnerAny(u, stored) == Role(u) = "garage_owner"

\* Line 462: the requester owns the garage of the booking.
isGarageOwner(u, stored) == garages[stored.garage].owner = u

\* The return of updateBookingStatus that a request takes: the first check of
\* the route and of lines 427-508 that it fails, or "ok" when it passes them all.
UpdateBookingStatusOutcome(u, b, s) ==
  IF Role(u) \notin {"garage_owner", "admin"} THEN "role"
  ELSE IF s = Missing THEN "no status"
  ELSE IF ~(b \in 1..Len(bookings) /\ ~bookings[b].isDeleted) THEN "not found"
  ELSE IF ~isGarageOwner(u, bookings[b]) /\ Role(u) # "admin"
    THEN "forbidden"
  ELSE IF SameStatus(bookings[b], s) THEN "same"
  ELSE IF s \notin Statuses \/ s \notin validTransitions[bookings[b].status]
    THEN "invalid"
  ELSE "ok"

\* The response sent on that return.
UpdateBookingStatusReply(u, b, s) ==
  LET op == "updateBookingStatus"
      o == UpdateBookingStatusOutcome(u, b, s)
  IN
  CASE o = "role" -> Response(op, 403, <<"Role not authorized">>)
    [] o = "no status" -> Response(op, 400, <<"Status is required">>)
    [] o = "not found" -> Response(op, 404, <<"Booking not found">>)
    [] o = "forbidden" ->
         Response(op, 403, <<"Not authorized to update this booking">>)
    [] o = "same" -> Response(op, 200, <<"Booking already", s>>)
    [] o = "invalid" ->
         Response(op, 400, <<"Cannot transition from", bookings[b].status, "to", s>>)
    [] o = "ok" -> Response(op, 200, <<"Booking", s, "successfully">>)

\* PUT /api/bookings/:id/status
UpdateBookingStatus(u, b, s, reason) ==
  LET stored == bookings[b]
      \* the in-memory document after lines 511-518
      doc == [stored EXCEPT
                !.status = s,
                !.statusHistory =
                   Append(@, HistoryEntry(s, u, reason, <<"Status changed to", s>>))]
  IN
  /\ last' = UpdateBookingStatusReply(u, b, s)
  /\ IF UpdateBookingStatusOutcome(u, b, s) = "ok"
       THEN /\ garages' =
                 IF s = "completed"
                   THEN [garages EXCEPT
                           ![stored.garage].stats.completedBookings = @ + 1]
                   ELSE garages
            /\ bookings' = [bookings EXCEPT ![b] = SaveBooking(stored, doc)]
       ELSE UNCHANGED <<bookings, garages>>
  /\ UNCHANGED <<users, services, created, txn, payments, reviews>>

\* -------------------------------------------------------- cancelBooking
\* PUT /api/bookings/:id/cancel
CancelBooking(u, b, reason) ==
  LET op == "cancelBooking"
      found == /\ b \in 1..Len(bookings)
               /\ bookings[b].carOwner = u
               /\ ~bookings[b].isDeleted
      stored == bookings[b]
      doc == [stored EXCEPT
                !.status = "cancelled",
                !.statusHistory =
                   Append(@, HistoryEntry("cancelled", u, reason,
                                          <<"Cancelled by customer">>))]
  IN
  /\ IF Role(u) # "car_owner"
       THEN /\ last' = Response(op, 403, <<"Role not authorized">>)
            /\ UNCHANGED bookings
     ELSE IF ~found
       THEN /\ last' = Response(op, 404, <<"Booking not found">>)
            /\ UNCHANGED bookings
     ELSE IF stored.status \notin cancellableStatuses
       THEN /\ last' = Response(op, 400,
                                <<"Cannot cancel booking with status:", stored.status>>)
            /\ UNCHANGED bookings
     ELSE /\ bookings' = [bookings EXCEPT ![b] = SaveBooking(stored, doc)]
          /\ last' = Response(op, 200, <<"Booking cancelled successfully">>)
  /\ UNCHANGED <<users, garages, services, created, txn, payments, reviews>>

\* -------------------------------------------------------- deleteBooking
\* As GarageAfterDelete, for a handler that leaves the garage's stats alone.
GarageAfterDeleteKept(gs, stored) == gs

\* Lines 1259-1263: the garage collection after a booking was soft-deleted.
GarageAfterDelete(gs, stored) ==
  IF stored.status = "completed"
    THEN [gs EXCEPT ![stored.garage].stats.completedBookings = Max0(@ - 1)]
    ELSE gs

\* DELETE /api/bookings/:id
DeleteBooking(u, b) ==
  LET op == "deleteBooking"
      found == b \in 1..Len(bookings) /\ ~bookings[b].isDeleted
      stored == bookings[b]
      isAuthorized ==
        \/ Role(u) = "admin"
        \/ stored.carOwner = u
        \/ Role(u) = "garage_owner" /\ garages[stored.garage].owner = u
      doc == [stored EXCEPT !.isDeleted = TRUE]
  IN
  /\ IF ~found
       THEN /\ last' = Response(op, 404, <<"Booking not found">>)
            /\ UNCHANGED <<bookings, garages>>
     ELSE IF ~isAuthorized
       THEN /\ last' = Response(op, 403,
                                <<"Not authorized to delete this booking">>)
            /\ UNCHANGED <<bookings, garages>>
     ELSE /\ bookings' = [bookings EXCEPT ![b] = SaveBooking(stored, doc)]
          /\ garages' = GarageAfterDelete(garages, stored)
          /\ last' = Response(op, 200, <<"Booking deleted successfully">>)
  /\ UNCHANGED <<users, services, created, txn, payments, reviews>>

\* ------------------------------------------------------- softDeleteUser
\* DELETE /api/users/:id (the user routes admit admins only)
SoftDeleteUser(u, id) ==
  LET op == "softDeleteUser" IN
  /\ IF Role(u) # "admin"
       THEN /\ last' = Response(op, 403, <<"Role not authorized">>)
            /\ UNCHANGED <<users, garages, bookings, reviews>>
     ELSE IF users[id].isDeleted
       THEN /\ last' = Response(op, 400, <<"User already deleted">>)
            /\ UNCHANGED <<users, garages, bookings, reviews>>
     ELSE /\ users' = [users EXCEPT ![id].isDeleted = TRUE]
          /\ garages' =
               [g \in Garages |->
                  IF Role(id) = "garage_owner" /\ garages[g].owner = id
                     /\ ~garages[g].isDeleted
                    THEN [garages[g] EXCEPT !.isDeleted = TRUE]
                    ELSE garages[g]]
          /\ bookings' =
               [i \in 1..Len(bookings) |->
                  IF bookings[i].carOwner = id /\ ~bookings[i].isDeleted
                    THEN UpdateBooking(bookings[i],
                           [isDeleted |-> TRUE, status |-> "cancelled"])
                    ELSE bookings[i]]
          /\ reviews' =
               [i \in 1..Len(reviews) |->
                  IF reviews[i].carOwner = id /\ ~reviews[i].isDeleted
                    THEN [reviews[i] EXCEPT !.isDeleted = TRUE]
                    ELSE reviews[i]]
          /\ last' = Response(op, 200, <<"User soft deleted successfully", id>>)
  /\ UNCHANGED <<services, created, txn, payments>>

\* ---------------------------------------------------------- restoreUser
\* PUT /api/users/:id/restore
RestoreUser(u, id) ==
  LET op == "restoreUser" IN
  /\ IF Role(u) # "admin"
       THEN /\ last' = Response(op, 403, <<"Role not authorized">>)
            /\ UNCHANGED <<users, garages>>
     ELSE IF ~users[id].isDeleted
       THEN /\ last' = Response(op, 400, <<"User is not deleted">>)
            /\ UNCHANGED <<users, garages>>
     ELSE /\ users' = [users EXCEPT ![id].isDeleted = FALSE]
          /\ garages' =
               [g \in Garages |->
                  IF Role(id) = "garage_owner" /\ garages[g].owner = id
                     /\ garages[g].isDeleted
                    THEN [garages[g] EXCEPT !.isDeleted = FALSE]
                    ELSE garages[g]]
          /\ last' = Response(op, 200, <<"User restored successfully", id>>)
  /\ UNCHANGED <<bookings, services, created, txn, payments, reviews>>

\* ------------------------------------------------------- specification
\* The createBooking requests clients send, as (user, garageId, serviceId, date):
\* a slot of g1, a slot of g2, a service of another garage, a request without
\* garage id and a request by a garage owner.
CreateRequests ==
  { <<"c1", "g1", "s1", 1>>, <<"c2", "g2", "s2", 1>>,
    <<"c1", "g1", "s2", 1>>, <<"c1", Missing, "s1", 1>>,
    <<"o1", "g1", "s1", 1>> }

\* The (bookingDate, timeSlot.start, timeSlot.end) of a request for day d; times
\* are minutes of the day.
SlotOf(d) == [date |-> d, start |-> 540, end |-> 600]

\* The system: every handler, requests by the principals concerned.
Next ==
  \/ \E q \in CreateRequests : CreateBooking(q[1], q[2], q[3], SlotOf(q[4]))
  \/ \E u \in GarageOwners, b \in BookingIds, s \in Statuses :
       UpdateBookingStatus(u, b, s, Missing)
  \/ \E u \in CarOwners, b \in BookingIds : CancelBooking(u, b, Missing)
  \/ \E u \in {"admin", "c1", "o1"}, b \in BookingIds : DeleteBooking(u, b)
  \/ \E id \in ManagedUsers : SoftDeleteUser("admin", id)
  \/ \E id \in ManagedUsers : RestoreUser("admin", id)

Spec == Init /\ [][Next]_vars

\* The booking state machine: bookings of one car owner at one garage, status
\* requests by every principal, with every status a caller can send.
NextSM ==
  \/ CreateBooking("c1", "g1", "s1", SlotOf(1))
  \/ \E u \in Users, b \in BookingIds, s \in RequestedStatuses, r \in Reasons :
       UpdateBookingStatus(u, b, s, r)
  \/ \E u \in CarOwners, b \in BookingIds, r \in Reasons : CancelBooking(u, b, r)
  \/ \E u \in {"admin", "c2"}, b \in BookingIds : DeleteBooking(u, b)
  \/ \E u \in {"admin", "c1"} : SoftDeleteUser(u, "c1")
  \/ \E u \in {"admin", "c1"} : RestoreUser(u, "c1")

SpecSM == Init /\ [][NextSM]_vars

\* ------------------------------------------- createBooking, interleaved
\* The transaction of a createBooking request takes its snapshot at its first
\* read (Garage.findOne) and its reads all see that snapshot.  Its writes are the
\* insert of the booking and the update of the garage document; MongoDB aborts a
\* transaction that writes a document another transaction wrote after the
\* snapshot was taken (WriteConflict), and the insert conflicts with nothing,
\* bookingSchema having no unique index.

\* As WriteConflict, for a store that lets the later write through.
WriteConflictIgnored(t) == FALSE

\* Another transaction wrote the garage document since t's snapshot.
WriteConflict(t) == t.stale

\* The requests of the two clients.
ConcRequests ==
  { <<"c1", "g1", "s1", 1>>, <<"c2", "g1", "s1", 1>>, <<"c2", "g1", "s1", 2>>,
    <<"c1", "g2", "s2", 1>>, <<"c1", "g1", "s2", 1>> }

Writing(k) == txn[k].pc = "writing"

\* Lines 82-154: the reads and checks of the request of client k.
CreateBookingBegin(k, u, g, sv, sl) ==
  LET r == CreateBookingCheck(u, g, sv, sl, garages, services, bookings)
      \* a request for the same slot that has read and not yet written
      rivals == {j \in Clients \ {k} :
                   Writing(j) /\ txn[j].garage = g /\ txn[j].slot = sl}
  IN
  /\ txn[k].pc = "idle"
  /\ Len(bookings) + Cardinality({j \in Clients : Writing(j)}) < MaxBookings
  /\ IF r.code # 0
       THEN /\ last' = r
            /\ txn' = [txn EXCEPT ![k] =
                         [pc |-> "done", garage |-> g, slot |-> sl,
                          code |-> r.code, rival |-> rivals # {}]]
       ELSE /\ txn' = [j \in Clients |->
                         IF j = k
                           THEN [pc |-> "writing", by |-> u, garage |-> g,
                                 service |-> sv, slot |-> sl,
                                 total |-> garages[g].stats.totalBookings,
                                 stale |-> FALSE, rival |-> rivals # {}]
                         ELSE IF j \in rivals
                           THEN [txn[j] EXCEPT !.rival = TRUE]
                           ELSE txn[j]]
            /\ UNCHANGED last
  /\ UNCHANGED <<users, garages, services, bookings, created, payments, reviews>>

\* Lines 156-201: the writes of the request of client k and its commit, or its
\* abort in the catch block.
CreateBookingCommit(k) ==
  LET t == txn[k]
      done(code) == [pc |-> "done", garage |-> t.garage, slot |-> t.slot,
                     code |-> code, rival |-> t.rival]
  IN
  /\ Writing(k)
  /\ IF WriteConflict(t)
       THEN /\ last' = Response("createBooking", 500, <<"Error creating booking">>)
            /\ txn' = [txn EXCEPT ![k] = done(500)]
            /\ UNCHANGED <<bookings, garages, created>>
       ELSE /\ bookings' =
                 Append(bookings, NewBooking(t.by, t.garage, t.service, t.slot))
            /\ garages' = BumpTotal(garages, t.garage, t.total)
            /\ created' = [created EXCEPT ![t.garage] = @ + 1]
            /\ last' = Response("createBooking", 201,
                                <<"Booking created successfully">>)
            /\ txn' = [j \in Clients |->
                         IF j = k THEN done(201)
                         ELSE IF Writing(j) /\ txn[j].garage = t.garage
                           THEN [txn[j] EXCEPT !.stale = TRUE]
                           ELSE txn[j]]
  /\ UNCHANGED <<users, services, payments, reviews>>

\* Two clients, one createBooking request each.
NextConc ==
  \/ \E k \in Clients, q \in ConcRequests :
       CreateBookingBegin(k, q[1], q[2], q[3], SlotOf(q[4]))
  \/ \E k \in Clients : CreateBookingCommit(k)

SpecConc == Init /\ [][NextConc]_vars

\* ------------------------------------------- status requests, interleaved
\* The transactions of updateBookingStatus and cancelBooking read the booking
\* (and updateBookingStatus, when it completes, the garage) from one snapshot
\* and write them with save({ session }); MongoDB aborts a transaction that
\* writes a document another transaction wrote after the snapshot was taken.

\* As DocumentWriteConflict, for a store that lets the later write through.
DocumentWriteConflictIgnored(t) == FALSE

\* Another transaction wrote a document of t's writes since t's snapshot.
DocumentWriteConflict(t) == t.stale

\* The response of cancelBooking for user u and booking b (route and lines
\* 562-604), code 200 when the checks pass.
CancelBookingReply(u, b) ==
  LET op == "cancelBooking" IN
  IF Role(u) # "car_owner"
    THEN Response(op, 403, <<"Role not authorized">>)
  ELSE IF ~(b \in 1..Len(bookings) /\ bookings[b].carOwner = u
            /\ ~bookings[b].isDeleted)
    THEN Response(op, 404, <<"Booking not found">>)
  ELSE IF bookings[b].status \notin cancellableStatuses
    THEN Response(op, 400, <<"Cannot cancel booking with status:", bookings[b].status>>)
  ELSE Response(op, 200, <<"Booking cancelled successfully">>)

\* The documents a request that passed its checks writes.
WritesOf(op, b, s) ==
  {<<"booking", b>>} \cup
    (IF op = "updateBookingStatus" /\ s = "completed"
       THEN {<<"garage", bookings[b].garage>>} ELSE {})

\* The reads and checks of a status request of client k: updateBookingStatus
\* to status s (lines 420-508) or cancelBooking (lines 562-604).
StatusBegin(k, op, u, b, s) ==
  LET r == IF op = "cancelBooking" THEN CancelBookingReply(u, b)
           ELSE UpdateBookingStatusReply(u, b, s)
      passes == IF op = "cancelBooking" THEN r.code = 200
                ELSE UpdateBookingStatusOutcome(u, b, s) = "ok"
  IN
  /\ txn[k].pc \in {"idle", "done"}
  /\ txn' = [txn EXCEPT ![k] =
               IF passes
                 THEN [pc |-> "writing", op |-> op, by |-> u, booking |-> b,
                       status |-> s, from |-> bookings[b].status,
                       completed |->
                         garages[bookings[b].garage].stats.completedBookings,
                       writes |-> WritesOf(op, b, s), stale |-> FALSE]
                 ELSE [pc |-> "done", code |-> r.code]]
  /\ last' = IF passes THEN last ELSE r
  /\ UNCHANGED <<users, garages, services, bookings, created, payments, reviews>>

\* The writes of the request of client k and its commit (lines 511-529 and
\* 606-617), or its abort in the catch block.
StatusCommit(k) ==
  LET t == txn[k]
      b == t.booking
      stored == bookings[b]
      reply == IF t.op = "cancelBooking"
                 THEN Response(t.op, 200, <<"Booking cancelled successfully">>)
                 ELSE Response(t.op, 200, <<"Booking", t.status, "successfully">>)
      default == IF t.op = "cancelBooking" THEN <<"Cancelled by customer">>
                 ELSE <<"Status changed to", t.status>>
      \* the in-memory document: the status and the pushed history entry
      doc == [stored EXCEPT
                !.status = t.status,
                !.statusHistory =
                   Append(@, HistoryEntry(t.status, t.by, Missing, default))]
  IN
  /\ txn[k].pc = "writing"
  /\ IF DocumentWriteConflict(t)
       THEN /\ last' = Response(t.op, 500, <<"Error">>)
            /\ txn' = [txn EXCEPT ![k] = [pc |-> "done", code |-> 500]]
            /\ UNCHANGED <<bookings, garages>>
       ELSE /\ bookings' = [bookings EXCEPT ![b] = SaveBooking(stored, doc)]
            /\ garages' =
                 IF <<"garage", stored.garage>> \in t.writes
                   THEN [garages EXCEPT
                           ![stored.garage].stats.completedBookings = t.completed + 1]
                   ELSE garages
            /\ last' = reply
            /\ txn' = [j \in Clients |->
                         IF j = k THEN [pc |-> "done", code |-> 200]
                         ELSE IF txn[j].pc = "writing"
                                 /\ txn[j].writes \cap t.writes # {}
                           THEN [txn[j] EXCEPT !.stale = TRUE]
                           ELSE txn[j]]
  /\ UNCHANGED <<users, services, created, payments, reviews>>

\* The status requests of the two clients: the garage's owner asks for a
\* status, the car owner cancels.
StatusRequests ==
  {<<"updateBookingStatus", "o1", s>> :
     s \in {"approved", "in_progress", "completed", "cancelled"}}
    \cup {<<"cancelBooking", "c1", "cancelled">>}

\* Two clients send status requests for the bookings of car owner c1 at garage
\* g1, one request after the other each.
NextStatConc ==
  \/ \E d \in {1, 2} : CreateBooking("c1", "g1", "s1", SlotOf(d))
  \/ \E k \in Clients, q \in StatusRequests, b \in BookingIds :
       StatusBegin(k, q[1], q[2], b, q[3])
  \/ \E k \in Clients : StatusCommit(k)

SpecStatConc == Init /\ [][NextStatConc]_vars

\* ---------------------------------------------------- checkAvailability
\* As isWithinBusinessHours, for a handler that keeps the slot strictly inside
\* the business hours.
isWithinBusinessHoursStrict(sl, businessDay) ==
  sl.start > businessDay.open /\ sl.end < businessDay.close

\* Lines 1134-1136.  Times are minutes of the day: the handler compares the
\* HH:MM strings, which for zero-padded times orders them as their minutes.
isWithinBusinessHours(sl, businessDay) ==
  sl.start >= businessDay.open /\ sl.end <= businessDay.close

\* The answer of POST /api/bookings/check-availability on the data it reads:
\* msg is <<available, reason>> on a 200.
Availability(g, sv, sl, gs, svs, bks) ==
  LET op == "checkAvailability"
      businessDay == gs[g].businessHours[DayOfWeek(sl.date)]
  IN
  IF g = Missing
    THEN Response(op, 400, <<"Missing required fields">>)
  ELSE IF gs[g].isDeleted
    THEN Response(op, 404, <<"Garage not found">>)
  ELSE IF businessDay.closed
    THEN Response(op, 200, <<FALSE, "Garage is closed on this day">>)
  ELSE IF ~isWithinBusinessHours(sl, businessDay)
    THEN Response(op, 200, <<FALSE, "Time slot is outside business hours">>)
  ELSE IF ExistingBooking(bks, g, sl)
    THEN Response(op, 200, <<FALSE, "Time slot already booked">>)
  ELSE IF sv # Missing /\ sl.end - sl.start < svs[sv].duration
    THEN Response(op, 200, <<FALSE, "Time slot duration is less than service duration">>)
  ELSE Response(op, 200, <<TRUE, "Time slot is available">>)

\* As CheckAvailability, for a handler that counts the query in the garage's
\* stats.
CheckAvailabilityCounted(g, sv, sl) ==
  /\ last' = Availability(g, sv, sl, garages, services, bookings)
  /\ garages' = IF g = Missing THEN garages
                ELSE BumpTotal(garages, g, garages[g].stats.totalBookings)
  /\ UNCHANGED <<users, services, bookings, created, txn, payments, reviews>>

\* POST /api/bookings/check-availability
CheckAvailability(g, sv, sl) ==
  /\ last' = Availability(g, sv, sl, garages, services, bookings)
  /\ UNCHANGED <<users, garages, services, bookings, created, txn, payments, reviews>>

\* The slots clients ask for: Monday 09:00-10:00, Sunday 09:00-10:00, Monday
\* 06:00-07:00 and Monday 09:00-09:30.
RequestedSlots ==
  { [date |-> 1, start |-> 540, end |-> 600],
    [date |-> 7, start |-> 540, end |-> 600],
    [date |-> 1, start |-> 360, end |-> 420],
    [date |-> 1, start |-> 540, end |-> 570] }

\* Slots at the edge of g1's business hours: Monday 08:00-17:00, 07:59-17:00 and
\* 08:00-17:01, and Sunday 08:00-17:00.
BoundarySlots ==
  { [date |-> 1, start |-> 480, end |-> 1020],
    [date |-> 1, start |-> 479, end |-> 1020],
    [date |-> 1, start |-> 480, end |-> 1021],
    [date |-> 7, start |-> 480, end |-> 1020] }

\* Availability queries and booking requests for the same garages, services and
\* slots, cancellations that free a slot again, and the soft-deletion of garage
\* g1 with its owner.
NextAvail ==
  \/ \E g \in {"g1", Missing}, sv \in {"s1", "s2", Missing},
        sl \in RequestedSlots \cup BoundarySlots :
       CheckAvailability(g, sv, sl)
  \/ \E g \in {"g1", Missing}, sv \in {"s1", "s2"}, sl \in RequestedSlots :
       CreateBooking("c1", g, sv, sl)
  \/ \E b \in BookingIds : CancelBooking("c1", b, Missing)
  \/ SoftDeleteUser("admin", "o1")

SpecAvail == Init /\ [][NextAvail]_vars

\* Slots whose end is not after their start: Monday 10:00-09:00 and Monday
\* 10:00-10:00.
ReversedSlots ==
  { [date |-> 1, start |-> 600, end |-> 540],
    [date |-> 1, start |-> 600, end |-> 600] }

\* The requests of NextAvail and availability queries for reversed slots.
NextAvailAny ==
  \/ NextAvail
  \/ \E sv \in {"s1", Missing}, sl \in ReversedSlots :
       CheckAvailability("g1", sv, sl)

SpecAvailAny == Init /\ [][NextAvailAny]_vars

\* -------------------------------------------------------- updateService
\* As ProtectedServiceFields, for a handler that does not delete updates.garage.
ProtectedServiceFieldsLoose == {"_id", "__v", "createdAt"}

\* The fields updateService deletes from req.body before Object.assign.
ProtectedServiceFields == {"_id", "garage", "__v", "createdAt"}

\* Values of name in request bodies: two spellings of one name, one of them
\* also with a leading blank, and another name.
ServiceNames == {"Oil", "oil", " oil", "Wash"}

\* String.prototype.toLowerCase on these names.
toLowerCase(n) ==
  IF n = "Oil" THEN "oil" ELSE IF n = "Wash" THEN "wash" ELSE n

\* serviceSchema.name has trim: true, so a name is stored without the blanks
\* around it.
trim(n) == IF n = " oil" THEN "oil" ELSE n

\* new RegExp(`^${name}$`, 'i') tested on a stored name; none of these names
\* holds a character that is special in a regular expression.
RegexMatches(name, storedName) == toLowerCase(name) = toLowerCase(storedName)

\* Service.findOne({ name: { $regex }, garage, _id: { $ne: id }, isDeleted:
\* false }) finds a document; id is Missing where the query has no _id.
existingService(name, g, id) ==
  \E s \in Services :
    /\ s # id
    /\ services[s].stored
    /\ ~services[s].isDeleted
    /\ services[s].garage = g
    /\ RegexMatches(name, services[s].name)

\* Object.assign(service, updates) after the protected fields were deleted.
AssignService(service, updates) ==
  [f \in DOMAIN service |->
     IF f \in DOMAIN updates /\ f \notin ProtectedServiceFields
       THEN IF f = "name" THEN trim(updates[f]) ELSE updates[f]
       ELSE service[f]]

\* Bodies of PUT /api/services/:id requests.
ServiceUpdates ==
  { [garage |-> "g2"], [isAvailable |-> FALSE], [isAvailable |-> TRUE],
    [isDeleted |-> TRUE] }

\* PUT /api/services/:id
UpdateService(u, sv, updates) ==
  LET op == "updateService" IN
  /\ IF ~services[sv].stored \/ services[sv].isDeleted
       THEN /\ last' = Response(op, 404, <<"Service not found">>)
            /\ UNCHANGED services
     ELSE IF garages[services[sv].garage].owner # u /\ Role(u) # "admin"
       THEN /\ last' = Response(op, 403, <<"Not authorized to update this service">>)
            /\ UNCHANGED services
     ELSE IF /\ "name" \in DOMAIN updates
             /\ toLowerCase(updates.name) # toLowerCase(services[sv].name)
             /\ existingService(updates.name, services[sv].garage, sv)
       THEN /\ last' = Response(op, 400,
                         <<"Service with this name already exists in your garage">>)
            /\ UNCHANGED services
     ELSE /\ services' = [services EXCEPT ![sv] = AssignService(@, updates)]
          /\ last' = Response(op, 200, <<"Service updated successfully">>)
  /\ UNCHANGED <<users, garages, bookings, created, txn, payments, reviews>>

\* ---------------------------------------------------------- verifyGarage
\* PUT /api/garages/:id/verify
VerifyGarage(g, status) ==
  LET op == "verifyGarage" IN
  /\ IF ~garages[g].stored \/ garages[g].isDeleted
       THEN /\ last' = Response(op, 404, <<"Garage not found">>)
            /\ UNCHANGED garages
       ELSE /\ garages' =
                 [garages EXCEPT
                    ![g] = GaragePreSave([@ EXCEPT !.status = status,
                                                   !.isActive = (status = "active")])]
            /\ last' = Response(op, 200, <<"Garage", status, "successfully">>)
  /\ UNCHANGED <<users, services, bookings, created, txn, payments, reviews>>

\* Bookings of car owner c1 at both garages with both services, while the
\* services are edited and garage g1 is suspended, verified and soft-deleted
\* with its owner.
NextSvc ==
  \/ \E g \in Garages, sv \in Services, d \in {1, 2} :
       CreateBooking("c1", g, sv, SlotOf(d))
  \/ \E u \in {"o1", "o2", "admin"}, updates \in ServiceUpdates :
       UpdateService(u, "s1", updates)
  \/ \E status \in {"active", "suspended"} : VerifyGarage("g1", status)
  \/ SoftDeleteUser("admin", "o1")
  \/ RestoreUser("admin", "o1")

SpecSvc == Init /\ [][NextSvc]_vars

\* ------------------------------------------------------------- payments
\* Entries of user.garageCreationPayments a settlement may push.
MaxGrants == 2

\* The collections a settlement reads and writes.
Db == [users |-> users, garages |-> garages, bookings |-> bookings,
       payments |-> payments]

\* The first transaction reference no stored payment has.
FreshPaymentId ==
  CHOOSE t \in PaymentIds :
    /\ ~payments[t].stored
    /\ \A t2 \in PaymentIds : (t2 = "t1" /\ ~payments[t2].stored) => t = t2

\* POST /api/payments/garage/init; an amount of 0 stands for a body without
\* amount, and a payment's booking is 0 when it references none.
InitGaragePayment(u, amount) ==
  LET op == "initGaragePayment" IN
  /\ \E t \in PaymentIds : ~payments[t].stored
  /\ IF Role(u) # "garage_owner"
       THEN /\ last' = Response(op, 403, <<"Role not authorized">>)
            /\ UNCHANGED payments
     ELSE IF amount = 0
       THEN /\ last' = Response(op, 400, <<"Missing payment amount">>)
            /\ UNCHANGED payments
     ELSE IF amount < 100 \/ amount > 1000000
       THEN /\ last' = Response(op, 400, <<"Amount must be between 100 and 1,000,000 ETB">>)
            /\ UNCHANGED payments
     ELSE /\ payments' =
               [payments EXCEPT ![FreshPaymentId] =
                  [stored |-> TRUE, user |-> u, paymentType |-> "garage_creation",
                   booking |-> 0, garage |-> Missing, status |-> "pending",
                   response |-> "initialize"]]
          /\ last' = Response(op, 201, <<"Payment initialized successfully">>)
  /\ UNCHANGED <<users, garages, services, bookings, created, txn, reviews>>

\* POST /api/payments/booking/init: line 190 reads booking.price.estimated, and
\* price is no path of bookingSchema, so the handler throws on every booking it
\* finds and its catch block answers 500; it stores no payment.
InitBookingPayment(u, b, amount) ==
  LET op == "initBookingPayment"
      found == /\ b \in 1..Len(bookings)
               /\ bookings[b].carOwner = u
               /\ ~bookings[b].isDeleted
  IN
  /\ last' =
       IF Role(u) # "car_owner"
         THEN Response(op, 403, <<"Role not authorized">>)
       ELSE IF amount = 0
         THEN Response(op, 400, <<"Missing booking ID or amount">>)
       ELSE IF ~found
         THEN Response(op, 404, <<"Booking not found">>)
       ELSE Response(op, 500, <<"Cannot read properties of undefined">>)
  /\ UNCHANGED <<users, garages, services, bookings, created, txn, payments, reviews>>

\* paymentSchema.post('save'): a saved completed garage_creation payment grants
\* its user canCreateGarage and pushes onto garageCreationPayments.  The hook
\* passes no session, so its write is outside the transaction of the caller.
PaymentPostSave(us, p) ==
  IF p.paymentType = "garage_creation" /\ p.status = "completed"
    THEN [us EXCEPT ![p.user].canCreateGarage = TRUE,
                    ![p.user].garageCreationPayments = @ + 1]
    ELSE us

\* A write outside the transaction modified the document of user u after the
\* transaction took its snapshot: the transaction's own write of that document
\* fails with a WriteConflict.
UserWriteConflict(before, after, u) == before[u] # after[u]

\* The payment the webhook saves at lines 314-321; response is the status of
\* the payload kept in provider.response.
WebhookSaved(p, status) ==
  [p EXCEPT !.status = IF status = "success" THEN "completed" ELSE "failed",
            !.response = status]

\* handleChapaWebhook on the collections db for a correctly signed payload
\* {tx_ref, status}: the response code and the collections it leaves.
WebhookResult(db, tx, status) ==
  LET p == db.payments[tx]
      saved == WebhookSaved(p, status)
      hooked == PaymentPostSave(db.users, saved)
      committed == [db EXCEPT !.payments[tx] = saved, !.users = hooked]
  IN
  IF tx \notin PaymentIds \/ ~p.stored
    THEN [code |-> 404, db |-> db]
  ELSE IF status = "success" /\ p.paymentType = "garage_creation"
    THEN IF UserWriteConflict(db.users, hooked, p.user)
           \* line 328 throws, the catch block aborts: the payment is as it
           \* was and the write of the hook stays
           THEN [code |-> 500, db |-> [db EXCEPT !.users = hooked]]
           ELSE [code |-> 200,
                 db |-> [committed EXCEPT
                           !.users[p.user].canCreateGarage = TRUE,
                           !.users[p.user].garageCreationPayments = @ + 1,
                           \* lines 343-352: Garage.findByIdAndUpdate runs no
                           \* save hook
                           !.garages = IF p.garage = Missing THEN @
                                       ELSE [@ EXCEPT ![p.garage].status = "pending"]]]
  ELSE IF status = "success" /\ p.paymentType = "booking" /\ p.booking # 0
    THEN [code |-> 200,
          db |-> [committed EXCEPT
                    !.bookings[p.booking] =
                       UpdateBooking(@, [isPaid |-> TRUE, payment |-> tx,
                                         status |-> "approved"])]]
  ELSE [code |-> 200, db |-> committed]

\* POST /api/payments/chapa-webhook
HandleChapaWebhook(signed, tx, status) ==
  LET op == "handleChapaWebhook"
      r == WebhookResult(Db, tx, status)
  IN
  /\ status = "success"
       => \A u \in Users : users[u].garageCreationPayments < MaxGrants
  /\ IF ~signed
       THEN /\ last' = Response(op, 401, <<"Invalid signature">>)
            /\ UNCHANGED <<users, garages, bookings, payments>>
       ELSE /\ last' = Response(op, r.code, <<tx, status>>)
            /\ users' = r.db.users
            /\ garages' = r.db.garages
            /\ bookings' = r.db.bookings
            /\ payments' = r.db.payments
  /\ UNCHANGED <<services, created, txn, reviews>>

\* verifyPayment on the collections db when the provider reports outcome for
\* tx_ref: the handler opens no transaction, each write is on its own.
VerifyResult(db, tx, outcome) ==
  LET p == db.payments[tx]
      saved == [p EXCEPT !.status = "completed"]
      hooked == PaymentPostSave(db.users, saved)
      settled == [db EXCEPT !.payments[tx] = saved, !.users = hooked]
  IN
  IF tx \notin PaymentIds \/ ~p.stored
    THEN [code |-> 404, db |-> db]
  ELSE IF outcome = "success" /\ p.status # "completed"
    THEN IF p.paymentType = "garage_creation"
           THEN [code |-> 200,
                 db |-> [settled EXCEPT !.users[p.user].canCreateGarage = TRUE]]
         ELSE IF p.paymentType = "booking" /\ p.booking # 0
           THEN [code |-> 200,
                 db |-> [settled EXCEPT
                           !.bookings[p.booking] =
                              UpdateBooking(@, [isPaid |-> TRUE])]]
         ELSE [code |-> 200, db |-> settled]
  ELSE IF outcome = "failed" /\ p.status = "pending"
    THEN [code |-> 200, db |-> [db EXCEPT !.payments[tx].status = "failed"]]
  ELSE [code |-> 200, db |-> db]

\* GET /api/payments/booking/verify/:tx_ref (car owners) and
\* GET /api/payments/garage/verify/:tx_ref (admins)
VerifyPayment(u, tx, outcome) ==
  LET op == "verifyPayment"
      r == VerifyResult(Db, tx, outcome)
  IN
  /\ \A v \in Users : users[v].garageCreationPayments < MaxGrants
  /\ IF Role(u) \notin {"car_owner", "admin"}
       THEN /\ last' = Response(op, 403, <<"Role not authorized">>)
            /\ UNCHANGED <<users, bookings, payments>>
       ELSE /\ last' = Response(op, r.code, <<tx, outcome>>)
            /\ users' = r.db.users
            /\ bookings' = r.db.bookings
            /\ payments' = r.db.payments
  /\ UNCHANGED <<garages, services, created, txn, reviews>>

\* initiateRefund on the collections db for the payment with reference tx: the
\* response code and the collections it leaves.
RefundResult(db, tx) ==
  LET p == db.payments[tx]
      refunded == [db EXCEPT !.payments[tx].status = "refunded"]
  IN
  IF ~p.stored
    THEN [code |-> 404, db |-> db]
  ELSE IF p.status # "completed"
    THEN [code |-> 400, db |-> db]
  ELSE IF p.paymentType = "booking" /\ p.booking # 0
    THEN [code |-> 200,
          db |-> [refunded EXCEPT
                    !.bookings[p.booking] =
                       UpdateBooking(@, [isPaid |-> FALSE, status |-> "cancelled"])]]
  ELSE IF p.paymentType = "garage_creation"
    THEN [code |-> 200,
          db |-> [refunded EXCEPT !.users[p.user].canCreateGarage = FALSE]]
  ELSE [code |-> 200, db |-> refunded]

\* POST /api/payments/:id/refund (admins)
InitiateRefund(u, tx) ==
  LET op == "initiateRefund"
      r == RefundResult(Db, tx)
  IN
  /\ IF Role(u) # "admin"
       THEN /\ last' = Response(op, 403, <<"Role not authorized">>)
            /\ UNCHANGED <<users, bookings, payments>>
       ELSE /\ last' = Response(op, r.code, <<tx>>)
            /\ users' = r.db.users
            /\ bookings' = r.db.bookings
            /\ payments' = r.db.payments
  /\ UNCHANGED <<garages, services, created, txn, reviews>>

\* A database that holds what lines 234-252 of initBookingPayment are written
\* to leave: a booking of car owner c1 at garage g1 and a pending payment of
\* type booking for it.
InitPay ==
  /\ users = [u \in Users |->
                [isDeleted |-> FALSE, canCreateGarage |-> FALSE,
                 garageCreationPayments |-> 0]]
  /\ garages =
       [g \in Garages |->
          [stored |-> TRUE,
           owner |-> IF g = "g1" THEN "o1" ELSE "o2",
           status |-> "active",
           isActive |-> TRUE,
           isDeleted |-> FALSE,
           businessHours |-> DefaultBusinessHours,
           stats |-> [totalBookings |-> IF g = "g1" THEN 1 ELSE 0,
                      completedBookings |-> 0]]]
  /\ services =
       [s \in Services |->
          [stored |-> TRUE,
           name |-> IF s = "s1" THEN "Oil" ELSE "Wash",
           garage |-> IF s = "s1" THEN "g1" ELSE "g2",
           isDeleted |-> FALSE,
           isAvailable |-> TRUE,
           duration |-> 60]]
  /\ bookings = <<NewBooking("c1", "g1", "s1", SlotOf(1))>>
  /\ created = [g \in Garages |-> IF g = "g1" THEN 1 ELSE 0]
  /\ last = NoResponse
  /\ txn = [k \in Clients |-> IdleTxn]
  /\ payments =
       [t \in PaymentIds |->
          IF t = "t1"
            THEN [stored |-> TRUE, user |-> "c1", paymentType |-> "booking",
                  booking |-> 1, garage |-> Missing, status |-> "pending",
                  response |-> "initialize"]
            ELSE NoPayment]
  /\ reviews = <<>>

\* Outcomes the provider reports for a transaction.
Outcomes == {"success", "failed"}

\* Settlement of a booking payment and of a garage creation payment through the
\* webhook and through verification, while the booking moves on.  A settlement
\* can take a completed booking back to approved, so the booking can complete
\* again and again: the status requests stop at MaxBookings completions.
NextPay ==
  \/ \E amount \in {0, 50, 500} : InitGaragePayment("o1", amount)
  \/ \E amount \in {0, 500} : InitBookingPayment("c1", 1, amount)
  \/ \E signed \in BOOLEAN, tx \in PaymentIds, status \in Outcomes :
       HandleChapaWebhook(signed, tx, status)
  \/ \E u \in {"c1", "admin", "o1"}, tx \in PaymentIds, outcome \in Outcomes :
       VerifyPayment(u, tx, outcome)
  \/ /\ garages["g1"].stats.completedBookings < MaxBookings
     /\ \E s \in Statuses : UpdateBookingStatus("o1", 1, s, Missing)
  \/ CancelBooking("c1", 1, Missing)
  \/ \E u \in {"admin", "o1"}, tx \in PaymentIds : InitiateRefund(u, tx)

SpecPay == InitPay /\ [][NextPay]_vars

\* --------------------------------------------------------------- garages
\* garageSchema.status enum
GarageStatuses == {"pending", "active", "suspended"}

\* A stored garage that is not soft-deleted.
FoundGarage(g) == garages[g].stored /\ ~garages[g].isDeleted

\* The completed garage_creation payment createGarage finds for user u, or
\* Missing.
CreationPayment(u) ==
  LET paid == {t \in PaymentIds :
                 /\ payments[t].stored
                 /\ payments[t].user = u
                 /\ payments[t].paymentType = "garage_creation"
                 /\ payments[t].status = "completed"}
  IN IF paid = {} THEN Missing
     ELSE IF "t1" \in paid THEN "t1" ELSE CHOOSE t \in paid : TRUE

\* The id of the garage document createGarage inserts.
FreshGarageId ==
  IF ~garages["g1"].stored THEN "g1" ELSE CHOOSE g \in Garages : ~garages[g].stored

\* POST /api/garages (garage owners and admins)
CreateGarage(u) ==
  LET op == "createGarage"
      t == CreationPayment(u)
      g == FreshGarageId
      \* payment.garageCreation = { garage, status: 'used' }, payment.save
      saved == [payments[t] EXCEPT !.garage = g]
  IN
  /\ \E g2 \in Garages : ~garages[g2].stored
  /\ users[u].garageCreationPayments < MaxGrants
  /\ IF Role(u) \notin {"garage_owner", "admin"}
       THEN /\ last' = Response(op, 403, <<"Role not authorized">>)
            /\ UNCHANGED <<users, garages, payments>>
     ELSE IF ~users[u].canCreateGarage
       THEN /\ last' = Response(op, 403, <<"Payment required to create a garage">>)
            /\ UNCHANGED <<users, garages, payments>>
     ELSE IF \E g2 \in Garages : FoundGarage(g2) /\ garages[g2].owner = u
       THEN /\ last' = Response(op, 400, <<"You already have a garage">>)
            /\ UNCHANGED <<users, garages, payments>>
     ELSE IF t = Missing
       THEN /\ last' = Response(op, 400,
                                <<"No valid payment found for garage creation">>)
            /\ UNCHANGED <<users, garages, payments>>
     ELSE /\ garages' =
               [garages EXCEPT
                  ![g] = GaragePreSave(
                           [stored |-> TRUE, owner |-> u, status |-> "pending",
                            isActive |-> FALSE, isDeleted |-> FALSE,
                            businessHours |-> DefaultBusinessHours,
                            stats |-> [totalBookings |-> 0,
                                       completedBookings |-> 0]])]
          /\ payments' = [payments EXCEPT ![t] = saved]
          /\ users' = PaymentPostSave(users, saved)
          /\ last' = Response(op, 201, <<"Garage created successfully">>)
  /\ UNCHANGED <<services, bookings, created, txn, reviews>>

\* A filter that also lets the status of the body through.
allowedUpdatesLoose ==
  {"name", "description", "coordinates", "address", "contactInfo",
   "businessHours", "images", "documents", "status"}

\* The keys of req.body a garage owner's updateGarage keeps (lines 584-587).
allowedUpdates ==
  {"name", "description", "coordinates", "address", "contactInfo",
   "businessHours", "images", "documents"}

\* Bodies of PATCH /api/garages/:id requests.
GarageUpdates ==
  { [isActive |-> TRUE], [isActive |-> FALSE], [status |-> "active"],
    [status |-> "suspended", isActive |-> TRUE] }

\* Object.assign(garage, updates) for requester u, then garage.save.
AssignGarage(u, garage, updates) ==
  GaragePreSave(
    [f \in DOMAIN garage |->
       IF f \in DOMAIN updates /\ (Role(u) = "admin" \/ f \in allowedUpdates)
         THEN updates[f] ELSE garage[f]])

\* PATCH /api/garages/:id (garage owners and admins)
UpdateGarage(u, g, updates) ==
  LET op == "updateGarage" IN
  /\ IF Role(u) \notin {"garage_owner", "admin"}
       THEN /\ last' = Response(op, 403, <<"Role not authorized">>)
            /\ UNCHANGED garages
     ELSE IF ~FoundGarage(g)
       THEN /\ last' = Response(op, 404, <<"Garage not found">>)
            /\ UNCHANGED garages
     ELSE IF garages[g].owner # u /\ Role(u) # "admin"
       THEN /\ last' = Response(op, 403, <<"Not authorized to update this garage">>)
            /\ UNCHANGED garages
     ELSE /\ garages' = [garages EXCEPT ![g] = AssignGarage(u, @, updates)]
          /\ last' = Response(op, 200, <<"Garage updated successfully">>)
  /\ UNCHANGED <<users, services, bookings, created, txn, payments, reviews>>

\* PUT /api/garages/:id/toggle-active (admins)
ToggleActive(u, g) ==
  LET op == "toggleActive"
      saved == GaragePreSave([garages[g] EXCEPT !.isActive = ~@])
  IN
  /\ IF Role(u) # "admin"
       THEN /\ last' = Response(op, 403, <<"Role not authorized">>)
            /\ UNCHANGED garages
     ELSE IF ~FoundGarage(g)
       THEN /\ last' = Response(op, 404, <<"Garage not found">>)
            /\ UNCHANGED garages
     ELSE /\ garages' = [garages EXCEPT ![g] = saved]
          /\ last' = Response(op, 200,
                              <<"Garage", IF saved.isActive THEN "activated"
                                          ELSE "deactivated", "successfully">>)
  /\ UNCHANGED <<users, services, bookings, created, txn, payments, reviews>>

\* DELETE /api/garages/:id (garage owners and admins); the bookings of the
\* model are dated in the future.
DeleteGarage(u, g) ==
  LET op == "deleteGarage" IN
  /\ IF Role(u) \notin {"garage_owner", "admin"}
       THEN /\ last' = Response(op, 403, <<"Role not authorized">>)
            /\ UNCHANGED <<garages, services, bookings>>
     ELSE IF ~FoundGarage(g)
       THEN /\ last' = Response(op, 404, <<"Garage not found">>)
            /\ UNCHANGED <<garages, services, bookings>>
     ELSE IF garages[g].owner # u /\ Role(u) # "admin"
       THEN /\ last' = Response(op, 403, <<"Not authorized to delete this garage">>)
            /\ UNCHANGED <<garages, services, bookings>>
     ELSE /\ garages' =
               [garages EXCEPT
                  ![g] = GaragePreSave([@ EXCEPT !.isDeleted = TRUE,
                                                 !.status = "suspended",
                                                 !.isActive = FALSE])]
          /\ services' =
               [sv \in Services |->
                  IF services[sv].garage = g /\ ~services[sv].isDeleted
                    THEN [services[sv] EXCEPT !.isDeleted = TRUE,
                                              !.isAvailable = FALSE]
                    ELSE services[sv]]
          /\ bookings' =
               [i \in 1..Len(bookings) |->
                  IF /\ bookings[i].garage = g
                     /\ bookings[i].status \in {"pending", "approved", "in_progress"}
                     /\ ~bookings[i].isDeleted
                    THEN UpdateBooking(bookings[i],
                           [status |-> "cancelled", isDeleted |-> TRUE])
                    ELSE bookings[i]]
          /\ last' = Response(op, 200, <<"Garage deleted successfully">>)
  /\ UNCHANGED <<users, created, txn, payments, reviews>>

\* PUT /api/garages/:id/restore (admins)
RestoreGarage(u, g) ==
  LET op == "restoreGarage" IN
  /\ IF Role(u) # "admin"
       THEN /\ last' = Response(op, 403, <<"Role not authorized">>)
            /\ UNCHANGED garages
     ELSE IF ~(garages[g].stored /\ garages[g].isDeleted)
       THEN /\ last' = Response(op, 404, <<"Deleted garage not found">>)
            /\ UNCHANGED garages
     ELSE /\ garages' =
               [garages EXCEPT
                  ![g] = GaragePreSave([@ EXCEPT !.isDeleted = FALSE,
                                                 !.status = "pending"])]
          /\ last' = Response(op, 200, <<"Garage restored successfully">>)
  /\ UNCHANGED <<users, services, bookings, created, txn, payments, reviews>>

\* router.put('/:id/verify', authorize('admin'), verifyGarage): the request of
\* user u reaches the handler only if u is an admin.
VerifyGarageRoute(u, g, status) ==
  IF Role(u) # "admin"
    THEN /\ last' = Response("verifyGarage", 403, <<"Role not authorized">>)
         /\ UNCHANGED <<users, garages, services, bookings, created, txn,
                        payments, reviews>>
    ELSE VerifyGarage(g, status)

\* Garage g1 of owner o1 is verified and active; owner o2 has no garage yet.
InitGar ==
  /\ users = [u \in Users |->
                [isDeleted |-> FALSE, canCreateGarage |-> FALSE,
                 garageCreationPayments |-> 0]]
  /\ garages =
       [g \in Garages |->
          [stored |-> g = "g1",
           owner |-> IF g = "g1" THEN "o1" ELSE "o2",
           status |-> IF g = "g1" THEN "active" ELSE "pending",
           isActive |-> g = "g1",
           isDeleted |-> FALSE,
           businessHours |-> DefaultBusinessHours,
           stats |-> [totalBookings |-> 0, completedBookings |-> 0]]]
  /\ services =
       [s \in Services |->
          [stored |-> TRUE,
           name |-> IF s = "s1" THEN "Oil" ELSE "Wash",
           garage |-> IF s = "s1" THEN "g1" ELSE "g2",
           isDeleted |-> FALSE,
           isAvailable |-> TRUE,
           duration |-> 60]]
  /\ bookings = <<>>
  /\ created = [g \in Garages |-> 0]
  /\ last = NoResponse
  /\ txn = [k \in Clients |-> IdleTxn]
  /\ payments = [t \in PaymentIds |-> NoPayment]
  /\ reviews = <<>>

\* The garage handlers and the settlement of garage creation payments.
NextGar ==
  \/ \E u \in {"o1", "o2"} : InitGaragePayment(u, 500)
  \/ \E tx \in PaymentIds, o \in Outcomes : VerifyPayment("admin", tx, o)
  \/ \E tx \in PaymentIds, st \in Outcomes : HandleChapaWebhook(TRUE, tx, st)
  \/ \E u \in {"o1", "o2", "c1"} : CreateGarage(u)
  \/ \E u \in {"o1", "o2", "admin"}, g \in Garages, updates \in GarageUpdates :
       UpdateGarage(u, g, updates)
  \/ \E g \in Garages, st \in GarageStatuses : VerifyGarage(g, st)
  \/ \E u \in {"admin", "o1"}, g \in Garages : ToggleActive(u, g)
  \/ \E u \in {"o1", "o2", "admin"}, g \in Garages : DeleteGarage(u, g)
  \/ \E u \in {"admin", "o1"}, g \in Garages : RestoreGarage(u, g)

SpecGar == InitGar /\ [][NextGar]_vars

\* A body that asks for status active.
Activating(updates) == "status" \in DOMAIN updates /\ updates.status = "active"

\* The requests of NextGar except the two by which an admin activates a garage:
\* verifyGarage with status active and updateGarage with a body that asks for
\* status active.
NextGarOwn ==
  \/ \E u \in {"o1", "o2"} : InitGaragePayment(u, 500)
  \/ \E tx \in PaymentIds, o \in Outcomes : VerifyPayment("admin", tx, o)
  \/ \E tx \in PaymentIds, st \in Outcomes : HandleChapaWebhook(TRUE, tx, st)
  \/ \E u \in {"o1", "o2"} : CreateGarage(u)
  \/ \E u \in {"o1", "o2"}, g \in Garages, updates \in GarageUpdates :
       UpdateGarage(u, g, updates)
  \/ \E g \in Garages, updates \in {b \in GarageUpdates : ~Activating(b)} :
       UpdateGarage("admin", g, updates)
  \/ \E g \in Garages, st \in GarageStatuses \ {"active"} :
       VerifyGarageRoute("admin", g, st)
  \/ \E g \in Garages : VerifyGarageRoute("o1", g, "active")
  \/ \E g \in Garages : ToggleActive("admin", g)
  \/ \E u \in {"o1", "o2", "admin"}, g \in Garages : DeleteGarage(u, g)
  \/ \E g \in Garages : RestoreGarage("admin", g)

SpecGarOwn == InitGar /\ [][NextGarOwn]_vars

\* A service document that was never inserted.
NoService ==
  [stored |-> FALSE, name |-> Missing, garage |-> Missing, isDeleted |-> FALSE,
   isAvailable |-> FALSE, duration |-> 0]

\* --------------------------------------------------- createGarage, interleaved
\* The transaction of a createGarage request reads the user, the garages of
\* the user and the payment from one snapshot; its writes are the insert of
\* the garage and payment.save, and MongoDB aborts a transaction that writes a
\* payment document another transaction wrote after the snapshot was taken.

\* Another transaction wrote the payment document since t's snapshot.
PaymentWriteConflict(t) == t.stale

\* Lines 36-93: the response of the checks of createGarage for user u, code 0
\* if they all pass.
CreateGarageCheck(u) ==
  LET op == "createGarage" IN
  IF Role(u) \notin {"garage_owner", "admin"}
    THEN Response(op, 403, <<"Role not authorized">>)
  ELSE IF ~users[u].canCreateGarage
    THEN Response(op, 403, <<"Payment required to create a garage">>)
  ELSE IF \E g \in Garages : FoundGarage(g) /\ garages[g].owner = u
    THEN Response(op, 400, <<"You already have a garage">>)
  ELSE IF CreationPayment(u) = Missing
    THEN Response(op, 400, <<"No valid payment found for garage creation">>)
  ELSE Response(op, 0, <<>>)

\* Lines 16-93: the reads and checks of the request of client k.
CreateGarageBegin(k, u) ==
  LET r == CreateGarageCheck(u) IN
  /\ txn[k].pc = "idle"
  /\ txn' = [txn EXCEPT ![k] =
               IF r.code # 0
                 THEN [pc |-> "done", by |-> u, code |-> r.code]
                 ELSE [pc |-> "writing", by |-> u,
                       payment |-> CreationPayment(u), stale |-> FALSE]]
  /\ last' = IF r.code # 0 THEN r ELSE last
  /\ UNCHANGED <<users, garages, services, bookings, created, payments, reviews>>

\* Lines 103-181: the writes of the request of client k and its commit, or
\* its abort in the catch block.
CreateGarageCommit(k) ==
  LET t == txn[k]
      g == FreshGarageId
      saved == [payments[t.payment] EXCEPT !.garage = g]
  IN
  /\ txn[k].pc = "writing"
  /\ IF PaymentWriteConflict(t)
       THEN /\ last' = Response("createGarage", 500, <<"Error creating garage">>)
            /\ txn' = [txn EXCEPT ![k] = [pc |-> "done", by |-> t.by, code |-> 500]]
            /\ UNCHANGED <<users, garages, payments>>
       ELSE /\ garages' =
                 [garages EXCEPT
                    ![g] = GaragePreSave(
                             [stored |-> TRUE, owner |-> t.by, status |-> "pending",
                              isActive |-> FALSE, isDeleted |-> FALSE,
                              businessHours |-> DefaultBusinessHours,
                              stats |-> [totalBookings |-> 0,
                                         completedBookings |-> 0]])]
            /\ payments' = [payments EXCEPT ![t.payment] = saved]
            /\ users' = PaymentPostSave(users, saved)
            /\ last' = Response("createGarage", 201, <<"Garage created successfully">>)
            /\ txn' = [j \in Clients |->
                         IF j = k THEN [pc |-> "done", by |-> t.by, code |-> 201]
                         ELSE IF txn[j].pc = "writing" /\ txn[j].payment = t.payment
                           THEN [txn[j] EXCEPT !.stale = TRUE]
                           ELSE txn[j]]
  /\ UNCHANGED <<services, bookings, created, reviews>>

\* No garage was created yet.
InitGarConc ==
  /\ users = [u \in Users |->
                [isDeleted |-> FALSE, canCreateGarage |-> FALSE,
                 garageCreationPayments |-> 0]]
  /\ garages =
       [g \in Garages |->
          [stored |-> FALSE,
           owner |-> Missing,
           status |-> "pending",
           isActive |-> FALSE,
           isDeleted |-> FALSE,
           businessHours |-> DefaultBusinessHours,
           stats |-> [totalBookings |-> 0, completedBookings |-> 0]]]
  /\ services = [s \in Services |-> NoService]
  /\ bookings = <<>>
  /\ created = [g \in Garages |-> 0]
  /\ last = NoResponse
  /\ txn = [k \in Clients |-> IdleTxn]
  /\ payments = [t \in PaymentIds |-> NoPayment]
  /\ reviews = <<>>

\* Two clients, one createGarage request each, while garage owners pay and
\* their payments are verified.
NextGarConc ==
  \/ \E u \in {"o1", "o2"} : InitGaragePayment(u, 500)
  \/ \E tx \in PaymentIds, o \in Outcomes : VerifyPayment("admin", tx, o)
  \/ \E k \in Clients, u \in {"o1", "o2", "c1"} : CreateGarageBegin(k, u)
  \/ \E k \in Clients : CreateGarageCommit(k)

SpecGarConc == InitGarConc /\ [][NextGarConc]_vars

\* POST /api/payments/:id/retry (any authenticated user, own payments);
\* initialized tells whether the provider accepted the new transaction.  The
\* model identifies a payment by its document, so the new transactionId of a
\* retried payment is the reference later notifications carry.
RetryPayment(u, tx, initialized) ==
  LET op == "retryPayment"
      p == payments[tx]
  IN
  /\ IF ~(p.stored /\ p.user = u /\ p.status = "failed")
       THEN /\ last' = Response(op, 404, <<"Failed payment not found">>)
            /\ UNCHANGED payments
     ELSE IF p.paymentType # "garage_creation"
       THEN /\ last' = Response(op, 400, <<"Retry not supported for this payment type">>)
            /\ UNCHANGED payments
     ELSE IF p.garage = Missing \/ ~garages[p.garage].stored
       \* Garage.findById returns null and line 850 reads garage.name
       THEN /\ last' = Response(op, 500, <<"Error retrying payment">>)
            /\ UNCHANGED payments
     ELSE IF ~initialized
       THEN /\ last' = Response(op, 500, <<"Error retrying payment">>)
            /\ UNCHANGED payments
     ELSE /\ payments' = [payments EXCEPT ![tx].status = "pending",
                                          ![tx].response = "initialize"]
          /\ last' = Response(op, 200, <<"Payment retry initialized">>)
  /\ UNCHANGED <<users, garages, services, bookings, created, txn, reviews>>

\* The life of the garage creation payments of owner o2: initialised, settled
\* or failed by notifications and verification, used to create a garage,
\* refunded and retried.
NextPayFlow ==
  \/ InitGaragePayment("o2", 500)
  \/ \E tx \in PaymentIds, o \in Outcomes : VerifyPayment("admin", tx, o)
  \/ \E tx \in PaymentIds, st \in Outcomes : HandleChapaWebhook(TRUE, tx, st)
  \/ CreateGarage("o2")
  \/ \E tx \in PaymentIds : InitiateRefund("admin", tx)
  \/ \E u \in {"o1", "o2"}, tx \in PaymentIds, initialized \in BOOLEAN :
       RetryPayment(u, tx, initialized)

SpecPayFlow == InitGarConc /\ [][NextPayFlow]_vars

\* -------------------------------------------------------------- services
\* The ids of the service documents an insert of n documents creates, in
\* order of insertion.
FreshServiceIds(n) ==
  LET free == {sv \in Services : ~services[sv].stored} IN
  IF n = 1 THEN IF "s1" \in free THEN <<"s1">> ELSE <<"s2">>
  ELSE <<"s1", "s2">>

\* The document Service.create stores for a body with this name and garageId.
NewService(name, g) ==
  [stored |-> TRUE, name |-> trim(name), garage |-> g, isDeleted |-> FALSE,
   isAvailable |-> TRUE, duration |-> 60]

\* POST /api/services; name is Missing for a body without name.
CreateService(u, name, g) ==
  LET op == "createService" IN
  /\ \E sv \in Services : ~services[sv].stored
  /\ IF name = Missing
       THEN /\ last' = Response(op, 400, <<"Missing required fields">>)
            /\ UNCHANGED <<services, garages>>
     ELSE IF ~FoundGarage(g)
       THEN /\ last' = Response(op, 404, <<"Garage not found">>)
            /\ UNCHANGED <<services, garages>>
     ELSE IF garages[g].owner # u /\ Role(u) # "admin"
       THEN /\ last' = Response(op, 403,
                         <<"Not authorized to add services to this garage">>)
            /\ UNCHANGED <<services, garages>>
     ELSE IF existingService(name, g, Missing)
       THEN /\ last' = Response(op, 400,
                         <<"Service with this name already exists in your garage">>)
            /\ UNCHANGED <<services, garages>>
     ELSE /\ services' =
               [services EXCEPT ![FreshServiceIds(1)[1]] = NewService(name, g)]
          /\ garages' = [garages EXCEPT ![g] = GaragePreSave(@)]
          /\ last' = Response(op, 201, <<"Service created successfully">>)
  /\ UNCHANGED <<users, bookings, created, txn, payments, reviews>>

\* POST /api/services/bulk with body { garageId, services }; names holds the
\* name of each element of services.
BulkCreateServices(u, g, names) ==
  LET op == "bulkCreateServices"
      serviceNames == [i \in 1..Len(names) |-> toLowerCase(names[i])]
      uniqueNames == {serviceNames[i] : i \in 1..Len(names)}
      ids == FreshServiceIds(Len(names))
  IN
  /\ Cardinality({sv \in Services : ~services[sv].stored}) >= Len(names)
  /\ IF Len(names) = 0
       THEN /\ last' = Response(op, 400, <<"Services array is required">>)
            /\ UNCHANGED <<services, garages>>
     ELSE IF ~FoundGarage(g)
       THEN /\ last' = Response(op, 404, <<"Garage not found">>)
            /\ UNCHANGED <<services, garages>>
     ELSE IF garages[g].owner # u /\ Role(u) # "admin"
       THEN /\ last' = Response(op, 403,
                         <<"Not authorized to add services to this garage">>)
            /\ UNCHANGED <<services, garages>>
     ELSE IF Cardinality(uniqueNames) # Len(names)
       THEN /\ last' = Response(op, 400, <<"Duplicate service names in the batch">>)
            /\ UNCHANGED <<services, garages>>
     ELSE /\ services' =
               [sv \in Services |->
                  IF \E i \in 1..Len(names) : ids[i] = sv
                    THEN NewService(names[CHOOSE i \in 1..Len(names) : ids[i] = sv], g)
                    ELSE services[sv]]
          /\ garages' = [garages EXCEPT ![g] = GaragePreSave(@)]
          /\ last' = Response(op, 201, <<Len(names), "services created successfully">>)
  /\ UNCHANGED <<users, bookings, created, txn, payments, reviews>>

\* DELETE /api/services/:id; the bookings of the model are dated in the
\* future.
DeleteService(u, sv) ==
  LET op == "deleteService"
      upcomingBookings ==
        \E i \in 1..Len(bookings) :
          /\ bookings[i].service = sv
          /\ bookings[i].status \in {"pending", "approved"}
          /\ ~bookings[i].isDeleted
  IN
  /\ IF ~services[sv].stored \/ services[sv].isDeleted
       THEN /\ last' = Response(op, 404, <<"Service not found">>)
            /\ UNCHANGED <<services, garages>>
     ELSE IF garages[services[sv].garage].owner # u /\ Role(u) # "admin"
       THEN /\ last' = Response(op, 403, <<"Not authorized to delete this service">>)
            /\ UNCHANGED <<services, garages>>
     ELSE IF upcomingBookings
       THEN /\ last' = Response(op, 400,
                         <<"Cannot delete service with upcoming bookings">>)
            /\ UNCHANGED <<services, garages>>
     ELSE /\ services' = [services EXCEPT ![sv].isDeleted = TRUE,
                                          ![sv].isAvailable = FALSE]
          /\ garages' = [garages EXCEPT ![services[sv].garage] = GaragePreSave(@)]
          /\ last' = Response(op, 200, <<"Service deleted successfully">>)
  /\ UNCHANGED <<users, bookings, created, txn, payments, reviews>>

\* PUT /api/services/:id/restore
RestoreService(u, sv) ==
  LET op == "restoreService" IN
  /\ IF ~(services[sv].stored /\ services[sv].isDeleted)
       THEN /\ last' = Response(op, 404, <<"Deleted service not found">>)
            /\ UNCHANGED <<services, garages>>
       ELSE /\ services' = [services EXCEPT ![sv].isDeleted = FALSE]
            /\ garages' = [garages EXCEPT ![services[sv].garage] = GaragePreSave(@)]
            /\ last' = Response(op, 200, <<"Service restored successfully">>)
  /\ UNCHANGED <<users, bookings, created, txn, payments, reviews>>

\* Bodies of PUT /api/services/:id requests that rename the service.
ServiceRenames == {[name |-> n] : n \in ServiceNames}

\* Batches of POST /api/services/bulk.
ServiceBatches ==
  {<<>>} \cup {<<n>> : n \in ServiceNames}
         \cup {<<n, m>> : n \in {"Oil", "oil"}, m \in ServiceNames}

\* Both garages are active and no service was inserted yet.
InitCat ==
  /\ users = [u \in Users |->
                [isDeleted |-> FALSE, canCreateGarage |-> FALSE,
                 garageCreationPayments |-> 0]]
  /\ garages =
       [g \in Garages |->
          [stored |-> TRUE,
           owner |-> IF g = "g1" THEN "o1" ELSE "o2",
           status |-> "active",
           isActive |-> TRUE,
           isDeleted |-> FALSE,
           businessHours |-> DefaultBusinessHours,
           stats |-> [totalBookings |-> 0, completedBookings |-> 0]]]
  /\ services = [s \in Services |-> NoService]
  /\ bookings = <<>>
  /\ created = [g \in Garages |-> 0]
  /\ last = NoResponse
  /\ txn = [k \in Clients |-> IdleTxn]
  /\ payments = [t \in PaymentIds |-> NoPayment]
  /\ reviews = <<>>

\* The service handlers that write a name or the soft-delete flag.
NextCat ==
  \/ \E u \in {"o1", "o2"}, name \in ServiceNames \cup {Missing}, g \in Garages :
       CreateService(u, name, g)
  \/ \E u \in {"o1", "o2"}, g \in Garages, names \in ServiceBatches :
       BulkCreateServices(u, g, names)
  \/ \E u \in {"o1", "o2"}, sv \in Services, updates \in ServiceRenames :
       UpdateService(u, sv, updates)
  \/ \E u \in {"o1", "o2"}, sv \in Services : DeleteService(u, sv)
  \/ \E sv \in Services : RestoreService("admin", sv)

SpecCat == InitCat /\ [][NextCat]_vars

\* ----------------------------------------------------- getServiceById
\* Slots generateTimeSlots pushes before the model stops following the loop.
MaxSlots == 10

\* Values of duration in the bodies of PUT /api/services/:id requests;
\* serviceSchema.duration is a Number without min.
Durations == {-30, 0, 60, 90, 240}

\* Bodies that set the duration of a service.
ServiceDurations == {[duration |-> d] : d \in Durations}

\* open.split(':').map(Number) on the "HH:MM" string of the time t, a number
\* of minutes of the day: <<hours, minutes>>.
ParseTime(t) == <<t \div 60, t % 60>>

\* The string generateTimeSlots pushes for currentTime, as <<hours, minutes>>:
\* Math.floor(currentTime / 60) and currentTime % 60, whose sign in JavaScript
\* is the sign of currentTime.
TimeStr(currentTime) ==
  <<currentTime \div 60,
    IF currentTime >= 0 THEN currentTime % 60 ELSE -((-currentTime) % 60)>>

\* GET /api/services/:id, lines 3253-3343: the lookup and the visibility check
\* of the request of client k by user u, then the call of generateTimeSlots
\* (lines 3229-3234) with the business hours of an open day of the garage and
\* the stored duration of the service.
GetServiceByIdBegin(k, u, sv) ==
  LET op == "getServiceById"
      service == services[sv]
      garage == garages[service.garage]
      businessHours == garage.businessHours["monday"]
      open == ParseTime(businessHours.open)
      close == ParseTime(businessHours.close)
      visible == \/ garage.owner = u
                 \/ Role(u) = "admin"
                 \/ garage.status = "active" /\ garage.isActive
      r == IF ~service.stored \/ service.isDeleted
             THEN Response(op, 404, <<"Service not found">>)
           ELSE IF ~visible
             THEN Response(op, 404, <<"Service not available">>)
           ELSE Response(op, 0, <<>>)
  IN
  /\ txn[k].pc \in {"idle", "done"}
  /\ txn' = [txn EXCEPT ![k] =
               IF r.code # 0
                 THEN [pc |-> "done", code |-> r.code]
                 ELSE [pc |-> "loop",
                       open |-> businessHours.open,
                       close |-> businessHours.close,
                       currentTime |-> open[1] * 60 + open[2],
                       endTime |-> close[1] * 60 + close[2],
                       duration |-> service.duration,
                       slots |-> <<>>]]
  /\ last' = IF r.code # 0 THEN r ELSE last
  /\ UNCHANGED <<users, garages, services, bookings, created, payments, reviews>>

\* One evaluation of the loop condition of generateTimeSlots (lines
\* 3236-3243) in the request of client k: an iteration, or the return of the
\* slots and the response of getServiceById.
GenerateTimeSlotsStep(k) ==
  LET t == txn[k] IN
  /\ txn[k].pc = "loop"
  /\ IF t.currentTime + t.duration <= t.endTime
       THEN /\ Len(t.slots) < MaxSlots
            /\ txn' = [txn EXCEPT
                         ![k].slots = Append(@, TimeStr(t.currentTime)),
                         ![k].currentTime = @ + t.duration]
            /\ UNCHANGED last
       ELSE /\ txn' = [txn EXCEPT ![k] = [pc |-> "done", code |-> 200]]
            /\ last' = Response("getServiceById", 200, t.slots)
  /\ UNCHANGED <<users, garages, services, bookings, created, payments, reviews>>

\* The owner of garage g1 sets the duration of its service, the garage is
\* suspended and verified, and a client reads the services.
NextSlots ==
  \/ \E updates \in ServiceDurations : UpdateService("o1", "s1", updates)
  \/ \E status \in {"active", "suspended"} : VerifyGarage("g1", status)
  \/ \E u \in {"c1", "o1"}, sv \in Services : GetServiceByIdBegin("k1", u, sv)
  \/ GenerateTimeSlotsStep("k1")

SpecSlots == Init /\ [][NextSlots]_vars

\* ------------------------------------------------- failing database calls
\* A booking handler that passed its checks issues its writes in the session,
\* commits, and (createBooking, updateBookingStatus) reads the booking again to
\* build the response.  Any of these calls can reject; the catch block then
\* aborts the transaction and answers 500.

\* The call that rejects: the first write, the second write, or the read after
\* the commit.
Faults == {"write1", "write2", "read"}

\* The collections a booking handler writes, with the count of committed creations.
Store == [bookings |-> bookings, garages |-> garages, created |-> created]

\* session.abortTransaction() in the catch block: the writes issued in the
\* session are discarded.
AbortTransaction(before, written) == before

\* The store after the call named by fault rejected.  stages is the store before
\* the request followed by the store after each write; after the commit the
\* abort in the catch block itself rejects and is swallowed.
AfterFault(stages, fault) ==
  CASE fault = "write1" -> AbortTransaction(stages[1], stages[1])
    [] fault = "write2" -> AbortTransaction(stages[1], stages[2])
    [] fault = "read" -> stages[Len(stages)]

\* The handler makes the call named by fault.
MakesCall(stages, hasRead, fault) ==
  CASE fault = "write1" -> Len(stages) >= 2
    [] fault = "write2" -> Len(stages) >= 3
    [] fault = "read" -> hasRead

\* createBooking lines 156-169: Booking.create, then garage.save.
CreateBookingStages(u, g, sv, sl) ==
  LET inserted == [Store EXCEPT
                     !.bookings = Append(@, NewBooking(u, g, sv, sl))]
  IN
  << Store, inserted,
     [inserted EXCEPT
        !.garages = BumpTotal(@, g, garages[g].stats.totalBookings),
        !.created[g] = @ + 1] >>

\* updateBookingStatus lines 511-527: garage.save for a completion, then
\* booking.save.
UpdateBookingStatusStages(u, b, s, reason) ==
  LET stored == bookings[b]
      doc == [stored EXCEPT
                !.status = s,
                !.statusHistory =
                   Append(@, HistoryEntry(s, u, reason, <<"Status changed to", s>>))]
      counted == [Store EXCEPT
                    !.garages[stored.garage].stats.completedBookings = @ + 1]
  IN
  IF s = "completed"
    THEN << Store, counted,
            [counted EXCEPT !.bookings[b] = SaveBooking(stored, doc)] >>
    ELSE << Store, [Store EXCEPT !.bookings[b] = SaveBooking(stored, doc)] >>

\* cancelBooking lines 606-615: booking.save.
CancelBookingStages(u, b, reason) ==
  LET stored == bookings[b]
      doc == [stored EXCEPT
                !.status = "cancelled",
                !.statusHistory =
                   Append(@, HistoryEntry("cancelled", u, reason,
                                          <<"Cancelled by customer">>))]
  IN
  << Store, [Store EXCEPT !.bookings[b] = SaveBooking(stored, doc)] >>

\* deleteBooking lines 1254-1263: booking.save, then garage.save for a completed
\* booking.
DeleteBookingStages(u, b) ==
  LET stored == bookings[b]
      saved == [Store EXCEPT
                  !.bookings[b] = SaveBooking(stored, [stored EXCEPT !.isDeleted = TRUE])]
  IN
  IF stored.status = "completed"
    THEN << Store, saved,
            [saved EXCEPT !.garages = GarageAfterDelete(@, stored)] >>
    ELSE << Store, saved >>

\* The catch block of a booking handler after the call named by fault rejected.
Caught(op, msg, stages, hasRead, fault) ==
  LET after == AfterFault(stages, fault) IN
  /\ MakesCall(stages, hasRead, fault)
  /\ last' = Response(op, 500, <<msg>>)
  /\ bookings' = after.bookings
  /\ garages' = after.garages
  /\ created' = after.created
  /\ UNCHANGED <<users, services, txn, payments, reviews>>

\* createBooking, lines 192-201
CreateBookingFault(u, g, sv, sl, fault) ==
  /\ CreateBookingCheck(u, g, sv, sl, garages, services, bookings).code = 0
  /\ Len(bookings) < MaxBookings
  /\ Caught("createBooking", "Error creating booking",
            CreateBookingStages(u, g, sv, sl), TRUE, fault)

\* updateBookingStatus, lines 541-553
UpdateBookingStatusFault(u, b, s, reason, fault) ==
  /\ UpdateBookingStatusOutcome(u, b, s) = "ok"
  /\ Caught("updateBookingStatus", "Error updating booking status",
            UpdateBookingStatusStages(u, b, s, reason), TRUE, fault)

\* cancelBooking, lines 625-636
CancelBookingFault(u, b, reason, fault) ==
  /\ Role(u) = "car_owner"
  /\ b \in 1..Len(bookings)
  /\ bookings[b].carOwner = u
  /\ ~bookings[b].isDeleted
  /\ bookings[b].status \in cancellableStatuses
  /\ Caught("cancelBooking", "Error cancelling booking",
            CancelBookingStages(u, b, reason), FALSE, fault)

\* deleteBooking, lines 1273-1284
DeleteBookingFault(u, b, fault) ==
  /\ b \in 1..Len(bookings)
  /\ ~bookings[b].isDeleted
  /\ \/ Role(u) = "admin"
     \/ bookings[b].carOwner = u
     \/ Role(u) = "garage_owner" /\ garages[bookings[b].garage].owner = u
  /\ Caught("deleteBooking", "Error deleting booking",
            DeleteBookingStages(u, b), FALSE, fault)

\* The booking handlers, each request running to its response or into a
\* rejected database call.
NextFault ==
  \/ \E q \in CreateRequests : CreateBooking(q[1], q[2], q[3], SlotOf(q[4]))
  \/ \E u \in {"o1", "o2", "c1"}, b \in BookingIds, s \in RequestedStatuses :
       UpdateBookingStatus(u, b, s, Missing)
  \/ \E u \in CarOwners, b \in BookingIds : CancelBooking(u, b, Missing)
  \/ \E u \in {"admin", "c1", "o1"}, b \in BookingIds : DeleteBooking(u, b)
  \/ \E q \in CreateRequests, f \in Faults :
       CreateBookingFault(q[1], q[2], q[3], SlotOf(q[4]), f)
  \/ \E u \in {"o1", "o2"}, b \in BookingIds, s \in RequestedStatuses, f \in Faults :
       UpdateBookingStatusFault(u, b, s, Missing, f)
  \/ \E u \in CarOwners, b \in BookingIds, f \in Faults :
       CancelBookingFault(u, b, Missing, f)
  \/ \E u \in {"admin", "c1", "o1"}, b \in BookingIds, f \in Faults :
       DeleteBookingFault(u, b, f)

SpecFault == Init /\ [][NextFault]_vars

\* ------------------------------------------------------- booking routes
\* The sender of a request that carries no bearer token.
NoToken == "no token"

\* protect, lines 106-122: the request carries a token (of a stored user).
protect(u) == u # NoToken

\* router.use(protect) in front of the handler A of operation op.
Protected(u, op, A) ==
  IF protect(u)
    THEN A
    ELSE /\ last' = Response(op, 401, <<"Not authorized, no token">>)
         /\ UNCHANGED <<users, garages, services, bookings, created, txn, payments,
                        reviews>>

\* The booking routes as the router mounts them, requests with and without a
\* token.
NextRoute ==
  \/ \E u \in {"c1", NoToken}, g \in {"g1", Missing}, sv \in {"s1", Missing},
        sl \in RequestedSlots :
       Protected(u, "checkAvailability", CheckAvailability(g, sv, sl))
  \/ \E u \in {"c1", NoToken} :
       Protected(u, "createBooking", CreateBooking(u, "g1", "s1", SlotOf(1)))
  \/ \E u \in {"o1", NoToken}, b \in BookingIds, s \in Statuses :
       Protected(u, "updateBookingStatus", UpdateBookingStatus(u, b, s, Missing))
  \/ \E u \in {"c1", NoToken}, b \in BookingIds :
       Protected(u, "cancelBooking", CancelBooking(u, b, Missing))
  \/ \E u \in {"c1", NoToken}, b \in BookingIds :
       Protected(u, "deleteBooking", DeleteBooking(u, b))

SpecRoute == Init /\ [][NextRoute]_vars

\* --------------------------------------------------------------- reviews
ReviewIds == 1..MaxReviews

\* review.response of a review nobody responded to; a response is
\* <<comment, respondedBy>>.
NoReviewResponse == <<>>

\* As ReviewableStatuses, for a handler that accepts a booking in any status.
ReviewableStatusesLoose == Statuses

\* createReview line 1970
ReviewableStatuses == {"completed", "approved"}

\* reviewSchema.index({ booking: 1 }, { unique: true }): the insert of a review
\* for booking b is rejected (E11000) when a stored review, soft-deleted or
\* not, references b.
DuplicateKey(rs, b) == \E i \in 1..Len(rs) : rs[i].booking = b

\* The return of createReview that a request takes: the first check of the
\* route and of lines 1946-2005 that it fails, "E11000" when Review.create is
\* rejected by the unique index, or "ok".
CreateReviewOutcome(u, g, b) ==
  IF Role(u) # "car_owner" THEN "role"
  ELSE IF g = Missing THEN "missing"
  ELSE IF ~(/\ b \in 1..Len(bookings)
            /\ bookings[b].carOwner = u
            /\ ~bookings[b].isDeleted)
    THEN "not found"
  ELSE IF bookings[b].status \notin ReviewableStatuses THEN "status"
  ELSE IF \E i \in 1..Len(reviews) : reviews[i].booking = b /\ ~reviews[i].isDeleted
    THEN "exists"
  ELSE IF garages[g].isDeleted THEN "no garage"
  ELSE IF DuplicateKey(reviews, b) THEN "E11000"
  ELSE "ok"

\* The response sent on that return.
CreateReviewReply(u, g, b) ==
  LET op == "createReview"
      o == CreateReviewOutcome(u, g, b)
  IN
  CASE o = "role" -> Response(op, 403, <<"Role not authorized">>)
    [] o = "missing" -> Response(op, 400, <<"Missing required fields">>)
    [] o = "not found" -> Response(op, 404, <<"Booking not found or not authorized">>)
    [] o = "status" ->
         Response(op, 400, <<"Can only review completed or approved bookings">>)
    [] o = "exists" -> Response(op, 400, <<"Review already exists for this booking">>)
    [] o = "no garage" -> Response(op, 404, <<"Garage not found">>)
    [] o = "E11000" -> Response(op, 500, <<"Error creating review">>)
    [] o = "ok" -> Response(op, 201, <<"Review created successfully">>)

\* POST /api/reviews
CreateReview(u, g, b) ==
  /\ CreateReviewOutcome(u, g, b) = "ok" => Len(reviews) < MaxReviews
  /\ last' = CreateReviewReply(u, g, b)
  /\ reviews' =
       IF CreateReviewOutcome(u, g, b) = "ok"
         THEN Append(reviews, [carOwner |-> u, garage |-> g, booking |-> b,
                               isDeleted |-> FALSE, response |-> NoReviewResponse])
         ELSE reviews
  /\ UNCHANGED <<users, garages, services, bookings, created, txn, payments>>

\* The fields updateReview deletes from req.body before Object.assign
\* (lines 2061-2065).
ProtectedReviewFields == {"carOwner", "garage", "booking", "isVerified", "response"}

\* Object.assign(review, updates) after the protected fields were deleted.
AssignReview(review, updates) ==
  [f \in DOMAIN review |->
     IF f \in DOMAIN updates /\ f \notin ProtectedReviewFields
       THEN updates[f] ELSE review[f]]

\* Bodies of PUT /api/reviews/:id requests.
ReviewUpdates ==
  { [garage |-> "g2"], [response |-> <<"thanks", "c1">>], [isDeleted |-> TRUE] }

\* A stored review that is not soft-deleted.
FoundReview(r) == r \in 1..Len(reviews) /\ ~reviews[r].isDeleted

\* PUT /api/reviews/:id (car owners); the review is younger than 30 days
UpdateReview(u, r, updates) ==
  LET op == "updateReview" IN
  /\ IF Role(u) # "car_owner"
       THEN /\ last' = Response(op, 403, <<"Role not authorized">>)
            /\ UNCHANGED reviews
     ELSE IF ~FoundReview(r)
       THEN /\ last' = Response(op, 404, <<"Review not found">>)
            /\ UNCHANGED reviews
     ELSE IF reviews[r].carOwner # u /\ Role(u) # "admin"
       THEN /\ last' = Response(op, 403, <<"Not authorized to update this review">>)
            /\ UNCHANGED reviews
     ELSE /\ reviews' = [reviews EXCEPT ![r] = AssignReview(@, updates)]
          /\ last' = Response(op, 200, <<"Review updated successfully">>)
  /\ UNCHANGED <<users, garages, services, bookings, created, txn, payments>>

\* DELETE /api/reviews/:id (car owners and admins)
SoftDeleteReview(u, r) ==
  LET op == "softDeleteReview" IN
  /\ IF Role(u) \notin {"car_owner", "admin"}
       THEN /\ last' = Response(op, 403, <<"Role not authorized">>)
            /\ UNCHANGED reviews
     ELSE IF r \notin 1..Len(reviews)
       THEN /\ last' = Response(op, 404, <<"Review not found">>)
            /\ UNCHANGED reviews
     ELSE IF reviews[r].carOwner # u /\ Role(u) # "admin"
       THEN /\ last' = Response(op, 403, <<"Not authorized to delete this review">>)
            /\ UNCHANGED reviews
     ELSE IF reviews[r].isDeleted
       THEN /\ last' = Response(op, 400, <<"Review already deleted">>)
            /\ UNCHANGED reviews
     ELSE /\ reviews' = [reviews EXCEPT ![r].isDeleted = TRUE]
          /\ last' = Response(op, 200, <<"Review deleted successfully">>)
  /\ UNCHANGED <<users, garages, services, bookings, created, txn, payments>>

\* PUT /api/reviews/:id/restore (admins)
RestoreReview(u, r) ==
  LET op == "restoreReview" IN
  /\ IF Role(u) # "admin"
       THEN /\ last' = Response(op, 403, <<"Role not authorized">>)
            /\ UNCHANGED reviews
     ELSE IF ~(r \in 1..Len(reviews) /\ reviews[r].isDeleted)
       THEN /\ last' = Response(op, 404, <<"Deleted review not found">>)
            /\ UNCHANGED reviews
     ELSE /\ reviews' = [reviews EXCEPT ![r].isDeleted = FALSE]
          /\ last' = Response(op, 200, <<"Review restored successfully">>)
  /\ UNCHANGED <<users, garages, services, bookings, created, txn, payments>>

\* As HasResponse, for a handler without the check of line 2183.
HasResponseSkipped(review) == FALSE

\* review.response && review.response.comment
HasResponse(review) == review.response # NoReviewResponse

\* The return the response handlers share: the first check of the route and of
\* lines 2147-2181 that a request fails, or "ok".  needsComment: the handler
\* reads req.body.comment.
ResponseOutcome(u, r, comment, needsComment) ==
  IF Role(u) \notin {"garage_owner", "admin"} THEN "role"
  ELSE IF needsComment /\ comment = Missing THEN "no comment"
  ELSE IF ~FoundReview(r) THEN "not found"
  ELSE IF garages[reviews[r].garage].owner # u /\ Role(u) # "admin" THEN "forbidden"
  ELSE "ok"

\* The response sent when a response handler returns before its own check.
ResponseReply(op, o) ==
  CASE o = "role" -> Response(op, 403, <<"Role not authorized">>)
    [] o = "no comment" -> Response(op, 400, <<"Response comment is required">>)
    [] o = "not found" -> Response(op, 404, <<"Review not found">>)
    [] o = "forbidden" -> Response(op, 403, <<"Not authorized">>)

\* POST /api/reviews/:id/response
AddResponse(u, r, comment) ==
  LET op == "addResponse"
      o == ResponseOutcome(u, r, comment, TRUE)
  IN
  /\ IF o # "ok"
       THEN /\ last' = ResponseReply(op, o)
            /\ UNCHANGED reviews
     ELSE IF HasResponse(reviews[r])
       THEN /\ last' = Response(op, 400,
                                <<"A response already exists for this review">>)
            /\ UNCHANGED reviews
     ELSE /\ reviews' = [reviews EXCEPT ![r].response = <<comment, u>>]
          /\ last' = Response(op, 200, <<"Response added successfully">>)
  /\ UNCHANGED <<users, garages, services, bookings, created, txn, payments>>

\* PUT /api/reviews/:id/response
UpdateResponse(u, r, comment) ==
  LET op == "updateResponse"
      o == ResponseOutcome(u, r, comment, TRUE)
  IN
  /\ IF o # "ok"
       THEN /\ last' = ResponseReply(op, o)
            /\ UNCHANGED reviews
     ELSE IF ~HasResponse(reviews[r])
       THEN /\ last' = Response(op, 400, <<"No response exists for this review">>)
            /\ UNCHANGED reviews
     ELSE /\ reviews' = [reviews EXCEPT ![r].response = <<comment, u>>]
          /\ last' = Response(op, 200, <<"Response updated successfully">>)
  /\ UNCHANGED <<users, garages, services, bookings, created, txn, payments>>

\* DELETE /api/reviews/:id/response
DeleteResponse(u, r) ==
  LET op == "deleteResponse"
      o == ResponseOutcome(u, r, Missing, FALSE)
  IN
  /\ IF o # "ok"
       THEN /\ last' = ResponseReply(op, o)
            /\ UNCHANGED reviews
       ELSE /\ reviews' = [reviews EXCEPT ![r].response = NoReviewResponse]
            /\ last' = Response(op, 200, <<"Response deleted successfully">>)
  /\ UNCHANGED <<users, garages, services, bookings, created, txn, payments>>

\* Reviews of the bookings of car owner c1 at garage g1: requests by the car
\* owner, another car owner, the garage's owner, another garage owner and the
\* admin.
NextRev ==
  \/ CreateBooking("c1", "g1", "s1", SlotOf(1))
  \/ \E b \in BookingIds, s \in {"approved", "in_progress", "completed"} :
       UpdateBookingStatus("o1", b, s, Missing)
  \/ \E u \in {"c1", "c2"}, g \in Garages, b \in BookingIds : CreateReview(u, g, b)
  \/ \E r \in ReviewIds, updates \in ReviewUpdates : UpdateReview("c1", r, updates)
  \/ \E u \in {"c1", "admin"}, r \in ReviewIds : SoftDeleteReview(u, r)
  \/ \E r \in ReviewIds : RestoreReview("admin", r)
  \/ \E u \in {"o1", "o2", "admin"}, r \in ReviewIds, c \in {Missing, "thanks"} :
       AddResponse(u, r, c)
  \/ \E u \in {"o1", "o2"}, r \in ReviewIds : UpdateResponse(u, r, "sorry")
  \/ \E u \in {"o1", "o2", "c1"}, r \in ReviewIds : DeleteResponse(u, r)
  \/ SoftDeleteUser("admin", "c1")

SpecRev == Init /\ [][NextRev]_vars

\* ================================================================ claims
Active(bk) == bk.status \notin {"cancelled", "rejected"}

SameTuple(b1, b2) == b1.garage = b2.garage /\ b1.slot = b2.slot

\* C1: for each (garage, bookingDate, timeSlot.start, timeSlot.end) at most one
\* booking has a status that is neither cancelled nor rejected.
C1_OneActiveBookingPerTuple ==
  \A i, j \in 1..Len(bookings) :
    (i # j /\ SameTuple(bookings[i], bookings[j]))
      => ~(Active(bookings[i]) /\ Active(bookings[j]))

\* C2: of two createBooking requests for the identical (garage, date, start,
\* end) that run concurrently (the second reads before the first has written),
\* exactly one is answered 201 and the other fails; two requests for the same
\* tuple never both commit a booking.
C2_ExactlyOneConcurrentCreate ==
  \A k1, k2 \in Clients :
    (/\ k1 # k2
     /\ txn[k1].pc = "done" /\ txn[k2].pc = "done"
     /\ txn[k1].garage = txn[k2].garage /\ txn[k1].slot = txn[k2].slot)
    => /\ ~(txn[k1].code = 201 /\ txn[k2].code = 201)
       /\ Cardinality({i \in 1..Len(bookings) :
                         /\ bookings[i].garage = txn[k1].garage
                         /\ bookings[i].slot = txn[k1].slot}) <= 1
       /\ (txn[k1].rival /\ txn[k2].rival)
            => (txn[k1].code = 201 \/ txn[k2].code = 201)

C2_Witness ==
  /\ txn["k1"].pc = "done" /\ txn["k2"].pc = "done"
  /\ txn["k1"].rival /\ txn["k2"].rival
  /\ txn["k1"].garage = txn["k2"].garage /\ txn["k1"].slot = txn["k2"].slot
  /\ txn["k1"].code = 500 /\ txn["k2"].code = 201
  /\ Len(bookings) = 1

\* The transition table of section 4.2, as pairs (current, target).
TransitionTable ==
  { <<"pending", "approved">>, <<"pending", "rejected">>,
    <<"pending", "cancelled">>, <<"approved", "in_progress">>,
    <<"approved", "cancelled">>, <<"in_progress", "completed">>,
    <<"in_progress", "cancelled">> }

\* The request of principal u on booking b passes the role, id and ownership
\* checks of updateBookingStatus.
MayDrive(u, b) ==
  /\ b \in 1..Len(bookings)
  /\ ~bookings[b].isDeleted
  /\ Role(u) = "admin" \/ garages[bookings[b].garage].owner = u

\* C3: an updateBookingStatus request changes a booking's status only along a
\* pair of the table and is then answered 200; a request that passes the role,
\* id and ownership checks with a target other than the current status and a
\* pair outside the table is answered 400 with a message naming the current and
\* the target status; a request that is not answered 200 changes no booking.
C3_OnlyTableTransitions ==
  /\ [](\A u \in Users, b \in BookingIds, s \in RequestedStatuses \ {Missing} :
          (/\ MayDrive(u, b)
           /\ bookings[b].status # s
           /\ <<bookings[b].status, s>> \notin TransitionTable)
          => UpdateBookingStatusReply(u, b, s) =
               Response("updateBookingStatus", 400,
                        <<"Cannot transition from", bookings[b].status, "to", s>>))
  /\ [][last'.op = "updateBookingStatus"
          => /\ \A b \in 1..Len(bookings) :
                  bookings'[b].status # bookings[b].status
                    => /\ <<bookings[b].status, bookings'[b].status>>
                            \in TransitionTable
                       /\ last'.code = 200
             /\ last'.code # 200 => bookings' = bookings
      ]_vars

C3_Witness ==
  /\ last = Response("updateBookingStatus", 400,
                     <<"Cannot transition from", "pending", "to", "completed">>)
  /\ \E b \in 1..Len(bookings) :
       bookings[b].status = "pending" /\ ~bookings[b].isDeleted

Terminal == {"completed", "cancelled", "rejected"}

\* C4: once a booking's status is completed, cancelled or rejected, no
\* operation changes it.
C4_TerminalStatusesStay ==
  [][\A b \in 1..Len(bookings) :
       bookings[b].status \in Terminal
         => bookings'[b].status = bookings[b].status]_vars

\* C5: an updateBookingStatus request that passes the role, id and ownership
\* checks and asks for the status the booking already has (terminal or not) is
\* answered 200, and handling it leaves every booking (status and
\* statusHistory) and every garage's stats as they were, so that repeating it
\* changes nothing either.
C5_SameStatusIsNoOp ==
  /\ [](\A u \in Users, b \in BookingIds :
          MayDrive(u, b)
            => UpdateBookingStatusReply(u, b, bookings[b].status) =
                 Response("updateBookingStatus", 200,
                          <<"Booking already", bookings[b].status>>))
  /\ [][(/\ last'.op = "updateBookingStatus"
         /\ Len(last'.msg) = 2
         /\ last'.msg[1] = "Booking already")
          => bookings' = bookings /\ garages' = garages
      ]_vars

C5_Witness ==
  /\ last = Response("updateBookingStatus", 200, <<"Booking already", "completed">>)
  /\ \E b \in 1..Len(bookings) :
       /\ bookings[b].status = "completed" /\ ~bookings[b].isDeleted
       /\ garages[bookings[b].garage].stats.completedBookings = 1

\* C7: every updateBookingStatus to a different status and every cancelBooking
\* that is answered 200 makes the booking's stored statusHistory one entry
\* longer, and the new last entry carries the new status.
C7_TransitionAppendsHistory ==
  [][\A b \in 1..Len(bookings) :
       (/\ last'.op \in {"updateBookingStatus", "cancelBooking"}
        /\ last'.code = 200
        /\ bookings'[b].status # bookings[b].status)
       => /\ Len(bookings'[b].statusHistory) = Len(bookings[b].statusHistory) + 1
          /\ bookings'[b].statusHistory[Len(bookings'[b].statusHistory)].status
               = bookings'[b].status
    ]_vars

\* The bookings of garage g that are not soft-deleted and are completed.
CompletedOf(g) ==
  {b \in 1..Len(bookings) :
     /\ bookings[b].garage = g
     /\ ~bookings[b].isDeleted
     /\ bookings[b].status = "completed"}

\* C8: each garage's stats.completedBookings is the number of its bookings
\* that are not soft-deleted and have status completed.
C8_CompletedBookingsIsCount ==
  \A g \in Garages :
    garages[g].stats.completedBookings = Cardinality(CompletedOf(g))

\* C9: each garage's stats.totalBookings is the number of createBooking
\* requests for that garage that were answered 201, and a step changes a
\* garage's totalBookings only if it is such a request, which adds 1.
C9_TotalBookingsCountsCreations ==
  /\ [](\A g \in Garages : garages[g].stats.totalBookings = created[g])
  /\ [][\A g \in Garages :
          garages'[g].stats.totalBookings # garages[g].stats.totalBookings
            => /\ last'.op = "createBooking" /\ last'.code = 201
               /\ garages'[g].stats.totalBookings
                    = garages[g].stats.totalBookings + 1
      ]_vars

C9_Witness ==
  /\ last.op = "deleteBooking" /\ last.code = 200
  /\ Len(bookings) = 2
  /\ bookings[1].garage = "g1" /\ bookings[2].garage = "g1"
  /\ bookings[1].status = "cancelled"
  /\ bookings[2].isDeleted
  /\ garages["g1"].stats.totalBookings = 2

\* C10: a createBooking request that is answered 201 appends exactly one
\* booking, pending, not deleted, of the requesting user and for the requested
\* garage, service and slot; it adds 1 to that garage's stats.totalBookings;
\* it changes no other booking and nothing else of any garage.
C10_CreateInsertsOnePending ==
  [][\A q \in CreateRequests :
       (/\ last'.op = "createBooking" /\ last'.code = 201
        /\ CreateBooking(q[1], q[2], q[3], SlotOf(q[4])))
       => /\ Len(bookings') = Len(bookings) + 1
          /\ SubSeq(bookings', 1, Len(bookings)) = bookings
          /\ bookings'[Len(bookings')] =
               [carOwner |-> q[1], garage |-> q[2], service |-> q[3],
                slot |-> SlotOf(q[4]), status |-> "pending",
                isDeleted |-> FALSE, statusHistory |-> <<>>]
          /\ garages' =
               [garages EXCEPT ![q[2]].stats.totalBookings = @ + 1]
    ]_vars

C10_Witness ==
  /\ last.op = "createBooking" /\ last.code = 201
  /\ Len(bookings) = 2
  /\ bookings[1].status = "completed" /\ bookings[1].garage = "g1"
  /\ bookings[2].status = "pending" /\ bookings[2].carOwner = "c2"
  /\ bookings[2].garage = "g2"
  /\ garages["g1"].stats = [totalBookings |-> 1, completedBookings |-> 1]
  /\ garages["g2"].stats = [totalBookings |-> 1, completedBookings |-> 0]

\* C11: a createBooking request is answered 201 only if checkAvailability, asked
\* in the same state for the same garage, service, date and time slot, answers
\* available = true.
C11_CreateOnlyWhenAvailable ==
  [][\A g \in {"g1"}, sv \in {"s1", "s2"}, sl \in RequestedSlots :
       (/\ last'.op = "createBooking" /\ last'.code = 201
        /\ CreateBooking("c1", g, sv, sl))
       => Availability(g, sv, sl, garages, services, bookings).msg[1] = TRUE
    ]_vars

C13_OnlyOwnerOrAdminDrives ==
  /\ [](\A u \in Users, b \in 1..Len(bookings), s \in RequestedStatuses \ {Missing} :
          (/\ ~bookings[b].isDeleted
           /\ Role(u) # "admin"
           /\ garages[bookings[b].garage].owner # u)
          => UpdateBookingStatusReply(u, b, s).code = 403)
  /\ [][(/\ last'.op = "updateBookingStatus"
         /\ (bookings' # bookings \/ garages' # garages))
        => \A u \in Users, b \in BookingIds, s \in RequestedStatuses, r \in Reasons :
             UpdateBookingStatus(u, b, s, r)
               => (Role(u) = "admin" \/ garages[bookings[b].garage].owner = u)
      ]_vars

C13_Witness ==
  /\ last = Response("updateBookingStatus", 403,
                     <<"Not authorized to update this booking">>)
  /\ Len(bookings) = 1
  /\ bookings[1].status = "approved"
  /\ ~bookings[1].isDeleted

\* C14: a cancelBooking request answered 200 was made by the car owner of a
\* non-deleted booking that was pending or approved, and sets that booking's
\* status to cancelled and nothing else; a cancelBooking request answered
\* otherwise leaves every booking as it was.
C14_CancelOnlyEarlyOwnBooking ==
  [][last'.op = "cancelBooking"
       => /\ garages' = garages
          /\ last'.code # 200 => bookings' = bookings
          /\ last'.code = 200 =>
               \A u \in CarOwners, b \in BookingIds, r \in Reasons :
                 CancelBooking(u, b, r)
                   => /\ b \in 1..Len(bookings)
                      /\ bookings[b].carOwner = u
                      /\ ~bookings[b].isDeleted
                      /\ bookings[b].status \in {"pending", "approved"}
                      /\ bookings' = [bookings EXCEPT ![b].status = "cancelled"]
    ]_vars

C14_Witness ==
  /\ last = Response("cancelBooking", 400,
                     <<"Cannot cancel booking with status:", "in_progress">>)
  /\ Len(bookings) = 2
  /\ bookings[1].status = "cancelled"
  /\ bookings[2].status = "in_progress"

\* C15: a request by a car owner changes a stored booking's status or deletion
\* flag, or a garage's stats, only by cancelling that car owner's own booking
\* from pending or approved: the car owner's updateBookingStatus and
\* deleteBooking requests change no booking and no garage, and the cancelBooking
\* request changes at most the status of the own booking, to cancelled.
C15_CarOwnerOnlyCancels ==
  [][\A u \in CarOwners, b \in BookingIds :
       /\ (last'.op = "deleteBooking" /\ DeleteBooking(u, b))
            => (bookings' = bookings /\ garages' = garages)
       /\ (last'.op = "updateBookingStatus"
           /\ \E s \in Statuses : UpdateBookingStatus(u, b, s, Missing))
            => (bookings' = bookings /\ garages' = garages)
       /\ (last'.op = "cancelBooking" /\ CancelBooking(u, b, Missing))
            => /\ garages' = garages
               /\ \/ bookings' = bookings
                  \/ /\ bookings[b].carOwner = u
                     /\ bookings[b].status \in {"pending", "approved"}
                     /\ bookings' = [bookings EXCEPT ![b].status = "cancelled"]
    ]_vars

MarkedPaid(bk, tx) ==
  /\ "isPaid" \in DOMAIN bk /\ bk.isPaid
  /\ "payment" \in DOMAIN bk /\ bk.payment = tx

C19_WebhookAndVerifyAgree ==
  \A tx \in PaymentIds, o \in Outcomes :
    payments[tx].stored
      => LET w == WebhookResult(Db, tx, o).db
             v == VerifyResult(Db, tx, o).db
         IN /\ \A t \in PaymentIds :
                 w.payments[t].stored => w.payments[t].status = v.payments[t].status
            /\ w.bookings = v.bookings
            /\ \A u \in Users :
                 w.users[u].canCreateGarage = v.users[u].canCreateGarage

\* C20: no payment of a booking is completed while the booking is not marked
\* paid, and no user has canCreateGarage without a completed garage creation
\* payment of that user.
C20_SettlementIsAtomic ==
  /\ \A tx \in PaymentIds :
       (/\ payments[tx].stored
        /\ payments[tx].paymentType = "booking"
        /\ payments[tx].status = "completed")
       => MarkedPaid(bookings[payments[tx].booking], tx)
  /\ \A u \in Users :
       users[u].canCreateGarage
         => \E tx \in PaymentIds :
              /\ payments[tx].stored
              /\ payments[tx].user = u
              /\ payments[tx].paymentType = "garage_creation"
              /\ payments[tx].status = "completed"

C22_ErrorLeavesBookingsAndStats ==
  [][(/\ last'.op \in {"createBooking", "updateBookingStatus",
                       "cancelBooking", "deleteBooking"}
      /\ last'.code >= 400)
       => /\ bookings' = bookings
          /\ \A g \in Garages : garages'[g].stats = garages[g].stats
    ]_vars

\* The step of the availability algorithm at which a query for garage g, service
\* sv (or none) and slot sl stops, as the claim lists them.
FirstFailingStep(g, sv, sl) ==
  LET day == garages[g].businessHours[DayOfWeek(sl.date)]
      taken == \E b \in 1..Len(bookings) :
                 /\ ~bookings[b].isDeleted
                 /\ bookings[b].status \notin {"cancelled", "rejected"}
                 /\ bookings[b].garage = g
                 /\ bookings[b].slot.date = sl.date
                 /\ bookings[b].slot.start = sl.start
                 /\ bookings[b].slot.end = sl.end
  IN
  IF garages[g].isDeleted THEN <<"Garage not found">>
  ELSE IF day.closed THEN <<FALSE, "Garage is closed on this day">>
  ELSE IF sl.start < day.open \/ sl.end > day.close
    THEN <<FALSE, "Time slot is outside business hours">>
  ELSE IF taken THEN <<FALSE, "Time slot already booked">>
  ELSE IF sv # Missing /\ sl.end - sl.start < services[sv].duration
    THEN <<FALSE, "Time slot duration is less than service duration">>
  ELSE <<TRUE, "Time slot is available">>

\* C23: checkAvailability answers available = true exactly when no step of the
\* algorithm fails, and otherwise reports the first failing step in the order
\* garage, closed day, business hours, booked slot, service duration; a slot
\* equal to the business hours is available unless booked or too short, a slot
\* one minute outside them is outside business hours, and a slot on a closed day
\* is closed whatever its times.
C23_AvailabilityAlgorithm ==
  /\ \A g \in Garages, sv \in Services \cup {Missing},
        sl \in RequestedSlots \cup BoundarySlots :
       Availability(g, sv, sl, garages, services, bookings).msg
         = FirstFailingStep(g, sv, sl)
  /\ last.op = "checkAvailability" /\ last.code # 400
       => \E g \in Garages, sv \in Services \cup {Missing},
             sl \in RequestedSlots \cup BoundarySlots :
            last.msg = FirstFailingStep(g, sv, sl)
  /\ ~garages["g1"].isDeleted
       => \A sv \in Services \cup {Missing} :
            LET answer(start, end, date) ==
                  Availability("g1", sv, [date |-> date, start |-> start, end |-> end],
                               garages, services, bookings).msg
                day == garages["g1"].businessHours["monday"]
            IN
            /\ answer(day.open, day.close, 1)[1] = TRUE
            /\ answer(day.open - 1, day.close, 1)[2]
                 = "Time slot is outside business hours"
            /\ answer(day.open, day.close + 1, 1)[2]
                 = "Time slot is outside business hours"
            /\ \A sl \in RequestedSlots \cup BoundarySlots :
                 answer(sl.start, sl.end, 7)[2] = "Garage is closed on this day"

\* An availability query was answered available while the garage holds a
\* booking that takes a slot and a cancelled booking.
C23_Witness ==
  /\ last.op = "checkAvailability"
  /\ last.code = 200
  /\ last.msg[1] = TRUE
  /\ \E b \in 1..Len(bookings) :
       bookings[b].garage = "g1" /\ bookings[b].status = "pending"
  /\ \E b \in 1..Len(bookings) :
       bookings[b].garage = "g1" /\ bookings[b].status = "cancelled"

\* C24: a checkAvailability request without a principal is answered with an
\* availability result or a validation error, not rejected as unauthorized,
\* and a createBooking, updateBookingStatus, cancelBooking or deleteBooking
\* request without a principal is rejected and changes nothing.
C24_AvailabilityNeedsNoPrincipal ==
  [][/\ last'.op = "checkAvailability"
          => \A g \in {"g1", Missing}, sv \in {"s1", Missing}, sl \in RequestedSlots :
               Protected(NoToken, "checkAvailability", CheckAvailability(g, sv, sl))
                 => last'.code \notin {401, 403}
     /\ last'.op = "createBooking"
          => \A sl \in {SlotOf(1)} :
               Protected(NoToken, "createBooking", CreateBooking(NoToken, "g1", "s1", sl))
                 => last'.code \in {401, 403} /\ UNCHANGED <<bookings, garages>>
     /\ last'.op = "updateBookingStatus"
          => \A b \in BookingIds, s \in Statuses :
               Protected(NoToken, "updateBookingStatus",
                         UpdateBookingStatus(NoToken, b, s, Missing))
                 => last'.code \in {401, 403} /\ UNCHANGED <<bookings, garages>>
     /\ last'.op = "cancelBooking"
          => \A b \in BookingIds :
               Protected(NoToken, "cancelBooking", CancelBooking(NoToken, b, Missing))
                 => last'.code \in {401, 403} /\ UNCHANGED <<bookings, garages>>
     /\ last'.op = "deleteBooking"
          => \A b \in BookingIds :
               Protected(NoToken, "deleteBooking", DeleteBooking(NoToken, b))
                 => last'.code \in {401, 403} /\ UNCHANGED <<bookings, garages>>
    ]_vars

\* C25: a checkAvailability request, whatever its inputs and its answer, leaves
\* every booking, garage, service and payment unchanged.
C25_AvailabilityIsReadOnly ==
  [][last'.op = "checkAvailability"
       => UNCHANGED <<bookings, garages, services, payments>>]_vars

\* An availability query was answered, found the slot booked, and the garage's
\* booking and stats are as createBooking left them.
C25_Witness ==
  /\ last.op = "checkAvailability"
  /\ last.msg = <<FALSE, "Time slot already booked">>
  /\ Len(bookings) = 1
  /\ garages["g1"].stats.totalBookings = 1

\* C26: a createReview request is answered 201 only if the booking it names
\* exists, is not soft-deleted, belongs to the requester and is completed or
\* approved; a request answered otherwise creates no review.
C26_ReviewOnlyEligibleBooking ==
  [][last'.op = "createReview"
       => \A u \in {"c1", "c2"}, g \in Garages, b \in BookingIds :
            CreateReview(u, g, b)
              => IF last'.code = 201
                   THEN /\ b \in 1..Len(bookings)
                        /\ ~bookings[b].isDeleted
                        /\ bookings[b].carOwner = u
                        /\ bookings[b].status \in {"completed", "approved"}
                        /\ Len(reviews') = Len(reviews) + 1
                        /\ reviews'[Len(reviews')].booking = b
                        /\ reviews'[Len(reviews')].carOwner = u
                   ELSE reviews' = reviews
    ]_vars

\* A review of an approved booking by its car owner exists, and a request of
\* another car owner for that booking was just refused.
C26_Witness ==
  /\ \E r \in 1..Len(reviews) :
       /\ bookings[reviews[r].booking].status = "approved"
       /\ bookings[reviews[r].booking].carOwner = reviews[r].carOwner
  /\ last = Response("createReview", 404, <<"Booking not found or not authorized">>)

\* A createReview request by u for garage g and booking b that passes every
\* check of the handler other than the one for an existing review.
OtherwiseValidReview(u, g, b) ==
  /\ Role(u) = "car_owner"
  /\ b \in 1..Len(bookings)
  /\ bookings[b].carOwner = u
  /\ ~bookings[b].isDeleted
  /\ bookings[b].status \in {"completed", "approved"}
  /\ ~garages[g].isDeleted

\* C27: at most one review references a booking, and a createReview request for
\* a booking that a review references already, soft-deleted or not, is refused
\* as a duplicate and creates nothing.
C27_OneReviewPerBooking ==
  /\ [](\A i, j \in 1..Len(reviews) :
          reviews[i].booking = reviews[j].booking => i = j)
  /\ [][last'.op = "createReview"
          => \A u \in {"c1", "c2"}, g \in Garages, b \in BookingIds :
               (/\ CreateReview(u, g, b)
                /\ OtherwiseValidReview(u, g, b)
                /\ \E i \in 1..Len(reviews) : reviews[i].booking = b)
                 => /\ last' = Response("createReview", 400,
                                        <<"Review already exists for this booking">>)
                    /\ reviews' = reviews
      ]_vars

\* C28: a createReview request is answered 201 only if the garage it names is
\* the garage of the booking it names, and every review's garage is the garage
\* of the booking the review references.
C28_ReviewGarageIsBookingGarage ==
  /\ [](\A r \in 1..Len(reviews) :
          reviews[r].garage = bookings[reviews[r].booking].garage)
  /\ [][last'.op = "createReview" /\ last'.code = 201
          => LET rv == reviews'[Len(reviews')] IN
             rv.garage = bookings[rv.booking].garage
      ]_vars

\* The owner of the review's garage, or an admin.
MayRespond(u, review) ==
  Role(u) = "admin" \/ garages[review.garage].owner = u

\* C29: an addResponse request of the garage's owner or an admin for a review
\* that has a response is answered "A response already exists" and leaves the
\* review as it was; a step that changes a review's response is an addResponse,
\* updateResponse or deleteResponse request of the owner of the review's garage
\* or of an admin.
C29_ResponseOnceByGarageSide ==
  [][/\ last'.op = "addResponse"
          => \A u \in {"o1", "o2", "admin"}, r \in 1..Len(reviews) :
               (/\ AddResponse(u, r, "thanks")
                /\ ~reviews[r].isDeleted
                /\ MayRespond(u, reviews[r])
                /\ reviews[r].response # NoReviewResponse)
                 => /\ last' = Response("addResponse", 400,
                                        <<"A response already exists for this review">>)
                    /\ reviews' = reviews
     /\ \A r \in 1..Len(reviews) :
          reviews'[r].response # reviews[r].response
            => \/ \E u \in {"o1", "o2", "admin"} :
                    /\ MayRespond(u, reviews[r])
                    /\ AddResponse(u, r, "thanks") \/ UpdateResponse(u, r, "sorry")
                    /\ reviews'[r].response[2] = u
               \/ \E u \in {"o1", "o2", "admin"} :
                    /\ MayRespond(u, reviews[r])
                    /\ DeleteResponse(u, r)
    ]_vars

\* A second addResponse for a review that has a response was refused.
C29_Witness ==
  /\ last = Response("addResponse", 400,
                     <<"A response already exists for this review">>)
  /\ \E r \in 1..Len(reviews) : reviews[r].response = <<"thanks", "o1">>

\* C30: for every stored garage, isActive is true exactly when status is
\* active.
C30_ActiveIffStatusActive ==
  \A g \in Garages :
    garages[g].stored => (garages[g].isActive <=> garages[g].status = "active")

\* The admin toggled a suspended garage and it is still inactive, and a garage
\* created by its owner after payment was verified active.
C30_Witness ==
  /\ last.op = "toggleActive"
  /\ last.code = 200
  /\ garages["g1"].status = "suspended" /\ ~garages["g1"].isActive
  /\ garages["g2"].stored /\ garages["g2"].status = "active" /\ garages["g2"].isActive

\* C31: while no admin verifies a garage as active and no admin sends an
\* update with status active, a garage_creation payment that becomes completed
\* leaves its user with canCreateGarage = TRUE, a garage is inserted with
\* status pending, and no request turns the status of a garage active: no
\* payment request, no owner's updateGarage, no toggleActive, no restoreGarage.
C31_OnlyAdminActivates ==
  [][ /\ \A t \in PaymentIds :
           ( /\ payments'[t].stored
             /\ payments'[t].paymentType = "garage_creation"
             /\ payments'[t].status = "completed"
             /\ ~(payments[t].stored /\ payments[t].status = "completed") )
           => users'[payments'[t].user].canCreateGarage
      /\ \A g \in Garages :
           /\ (garages'[g].stored /\ ~garages[g].stored)
                => garages'[g].status = "pending"
           /\ (garages'[g].stored /\ garages'[g].status = "active")
                => (garages[g].stored /\ garages[g].status = "active") ]_vars

\* Owner o2 paid, created garage g2 and sent an update: g2 is still pending.
C31_Witness ==
  /\ last = Response("updateGarage", 200, <<"Garage updated successfully">>)
  /\ garages["g2"].stored
  /\ garages["g2"].owner = "o2"
  /\ garages["g2"].status = "pending"
  /\ ~garages["g1"].isDeleted
  /\ \E t \in PaymentIds :
       /\ payments[t].stored
       /\ payments[t].status = "completed"
       /\ payments[t].garage = "g2"
       /\ users[payments[t].user].canCreateGarage

\* C32: no two stored, non-deleted services of one garage have names that are
\* equal ignoring letter case.
C32_ServiceNamesUnique ==
  \A s1, s2 \in Services :
    ( /\ s1 # s2
      /\ services[s1].stored /\ ~services[s1].isDeleted
      /\ services[s2].stored /\ ~services[s2].isDeleted
      /\ services[s1].garage = services[s2].garage )
    => toLowerCase(services[s1].name) # toLowerCase(services[s2].name)

\* C33: a createGarage request passes its checks only if its user has
\* canCreateGarage = TRUE, a completed garage_creation payment and no
\* non-deleted garage; a request of a user who owns a non-deleted garage is
\* answered 400 and inserts nothing; a garage is inserted only by a request
\* that passed the checks; and no two requests of one user are both answered
\* 201, so a user never owns two non-deleted garages.
C33_OneGaragePerOwner ==
  [][ /\ \A k \in Clients :
           (txn[k].pc = "idle" /\ txn'[k].pc # "idle")
           => LET u == txn'[k].by
                  owns == \E g \in Garages : FoundGarage(g) /\ garages[g].owner = u
              IN /\ garages' = garages
                 /\ txn'[k].pc = "writing"
                      => /\ users[u].canCreateGarage
                         /\ CreationPayment(u) # Missing
                         /\ ~owns
                 /\ (owns /\ users[u].canCreateGarage)
                      => last' = Response("createGarage", 400,
                                          <<"You already have a garage">>)
      /\ garages' # garages
           => \E k \in Clients :
                /\ txn[k].pc = "writing"
                /\ txn'[k] = [pc |-> "done", by |-> txn[k].by, code |-> 201]
      /\ \A j, k \in Clients :
           ( /\ j # k
             /\ txn'[j].pc = "done" /\ txn'[j].code = 201
             /\ txn'[k].pc = "done" /\ txn'[k].code = 201 )
           => txn'[j].by # txn'[k].by
      /\ \A g1, g2 \in Garages :
           ( /\ g1 # g2
             /\ garages'[g1].stored /\ ~garages'[g1].isDeleted
             /\ garages'[g2].stored /\ ~garages'[g2].isDeleted )
           => garages'[g1].owner # garages'[g2].owner ]_vars

\* The garage's owner can take a booking that is not soft-deleted one step
\* along pending, approved, in_progress, completed: the request is answered 200.
OwnerCanAdvance(b) ==
  LET o == garages[bookings[b].garage].owner IN
  \A pair \in {<<"pending", "approved">>, <<"approved", "in_progress">>,
                <<"in_progress", "completed">>} :
    bookings[b].status = pair[1]
      => UpdateBookingStatusReply(o, b, pair[2]) =
           Response("updateBookingStatus", 200, <<"Booking", pair[2], "successfully">>)

\* C34: at each of the statuses pending, approved and in_progress the request
\* of the garage's owner for the next status is answered 200; the request that
\* completes the booking raises the garage's completedBookings by exactly 1 and
\* leaves the booking completed with the stored history approved, in_progress,
\* completed.
C34_OwnerDrivesToCompleted ==
  /\ [](\A b \in 1..Len(bookings) : ~bookings[b].isDeleted => OwnerCanAdvance(b))
  /\ [][\A b \in 1..Len(bookings) :
          ( /\ last'.op = "updateBookingStatus"
            /\ bookings[b].status = "in_progress"
            /\ bookings'[b].status = "completed" )
          => LET g == bookings[b].garage
                 h == bookings'[b].statusHistory
             IN /\ garages'[g].stats.completedBookings =
                     garages[g].stats.completedBookings + 1
                /\ Len(h) = 3
                /\ h[1].status = "approved"
                /\ h[2].status = "in_progress"
                /\ h[3].status = "completed"
     ]_vars

\* The bookings and garages the handler of the request of transaction t leaves
\* when it runs alone in the current state.
RunAlone(t) ==
  LET b == t.booking
      passes == IF t.op = "cancelBooking" THEN CancelBookingReply(t.by, b).code = 200
                ELSE UpdateBookingStatusOutcome(t.by, b, t.status) = "ok"
  IN
  IF ~passes THEN [bookings |-> bookings, garages |-> garages]
  ELSE [bookings |-> [bookings EXCEPT ![b].status = t.status],
        garages |->
          IF t.op = "updateBookingStatus" /\ t.status = "completed"
            THEN [garages EXCEPT
                    ![bookings[b].garage].stats.completedBookings = @ + 1]
            ELSE garages]

\* C35: the write phase of an interleaved status request either changes
\* nothing or leaves the statuses and the counters that the same request
\* leaves when it runs alone at that moment, so two requests that read the
\* same source status are never both applied; each applied change makes the
\* stored history of the booking one entry longer; and completedBookings rises
\* by exactly 1 in the step that completes a booking and in no other.
C35_StatusRequestsSerialize ==
  [][\A k \in Clients :
       (txn[k].pc = "writing" /\ txn'[k].pc = "done")
       => LET t == txn[k]
              b == t.booking
              g == bookings[b].garage
              alone == RunAlone(t)
              applied == bookings'[b].status # bookings[b].status
          IN /\ \/ bookings' = bookings /\ garages' = garages
                \/ /\ [i \in 1..Len(bookings) |-> bookings'[i].status] =
                        [i \in 1..Len(bookings) |-> alone.bookings[i].status]
                   /\ garages' = alone.garages
             /\ applied => bookings[b].status = t.from
             /\ applied =>
                  Len(bookings'[b].statusHistory) = Len(bookings[b].statusHistory) + 1
             /\ garages'[g].stats.completedBookings =
                  garages[g].stats.completedBookings
                    + (IF applied /\ bookings'[b].status = "completed" THEN 1 ELSE 0)
    ]_vars

\* C36: with createBooking requests of two clients interleaved, the
\* totalBookings of every garage equals the number of requests for that garage
\* that were answered 201, which is the number of bookings stored for it.
C36_NoLostIncrement ==
  \A g \in Garages :
    LET succeeded == {k \in Clients :
                       /\ txn[k].pc = "done"
                       /\ txn[k].code = 201
                       /\ txn[k].garage = g}
    IN /\ garages[g].stats.totalBookings = Cardinality(succeeded)
       /\ garages[g].stats.totalBookings =
            Cardinality({i \in 1..Len(bookings) : bookings[i].garage = g})

\* Two requests for different slots of garage g1 both passed the checks on the
\* same snapshot: one is answered 201, the other is aborted, and the counter
\* is 1.
C36_Witness ==
  /\ txn["k1"].pc = "done" /\ txn["k2"].pc = "done"
  /\ txn["k1"].garage = "g1" /\ txn["k2"].garage = "g1"
  /\ txn["k1"].slot # txn["k2"].slot
  /\ txn["k1"].code = 201 /\ txn["k2"].code = 500
  /\ garages["g1"].stats.totalBookings = 1

\* C37: the status of a stored payment changes only from pending to completed
\* or failed, from completed to refunded, and from failed to pending in a
\* retryPayment request.
C37_PaymentStatusForward ==
  [][\A t \in PaymentIds :
       (payments[t].stored /\ payments'[t].status # payments[t].status)
       => \/ /\ payments[t].status = "pending"
             /\ payments'[t].status \in {"completed", "failed"}
          \/ /\ payments[t].status = "completed"
             /\ payments'[t].status = "refunded"
          \/ /\ payments[t].status = "failed"
             /\ payments'[t].status = "pending"
             /\ last'.op = "retryPayment"
    ]_vars

\* C39: a checkAvailability request for a slot whose end is not after its
\* start is never answered available = true, with or without a service id.
C39_NoEmptySlotAvailable ==
  [][last'.op = "checkAvailability"
       => \A sv \in {"s1", Missing}, sl \in ReversedSlots :
            CheckAvailability("g1", sv, sl)
              => ~(last'.code = 200 /\ last'.msg[1])
    ]_vars

\* C40: every iteration of generateTimeSlots moves currentTime forward, so
\* that the loop ends for every stored duration; the slot it pushes starts at
\* or after the opening time and ends at or before the closing time, and
\* starts exactly duration minutes after the slot pushed before it.
C40_TimeSlotsTerminate ==
  [][\A k \in Clients :
       (txn[k].pc = "loop" /\ txn'[k].pc = "loop" /\ txn'[k] # txn[k])
       => LET t == txn'[k]
              n == Len(t.slots)
              start(i) == t.slots[i][1] * 60 + t.slots[i][2]
          IN /\ t.currentTime > txn[k].currentTime
             /\ n = Len(txn[k].slots) + 1
             /\ t.open <= start(n)
             /\ start(n) + t.duration <= t.close
             /\ n > 1 => start(n) = start(n - 1) + t.duration
    ]_vars

====
